---- MODULE Spec2Model ----
(***************************************************************************)
(* Session entitlement and booking engine of src/app.py, as a state        *)
(* machine over the rows of the tables members, schedules and              *)
(* ot_assignments.  Every request handler is one atomic action (the        *)
(* application is single threaded per request); SpecRace splits            *)
(* quick_add_schedule at the store insert to interleave two requests.      *)
(*                                                                         *)
(* Status strings of the source are written in ASCII:                      *)
(*   "planned" = '수업 계획', "completed" = '수업 완료',                   *)
(*   "cancelled" = '수업 취소', "plan" = '계획' (the literal used by       *)
(*   transfer_member), "in" = '근무내', "out" = '근무외',                  *)
(*   "regular" = '일반회원', "OT" = 'OT회원'.                              *)
(* Dates are day numbers, start_time is the hour; completed_at is "now"    *)
(* once set (the timestamp itself is never read).                          *)
(***************************************************************************)
EXTENDS Integers, Sequences, FiniteSets, TLC

VARIABLES
    members,        \* table members: id -> row (ledger entries)
    schedules,      \* table schedules: id -> row (bookings)
    ot_assignments, \* table ot_assignments: id -> row
    today,          \* datetime.now(KST).date()
    resp,           \* the typed result of the last request
    inflight,       \* SpecRace: the requests between their reads and their insert
    history,        \* table ot_assignment_history: the records in insertion order
    salary          \* trainer_data of the last salary page rendered

vars == <<members, schedules, ot_assignments, today, resp, inflight, history,
          salary>>

----------------------------------------------------------------------------
(* Bounds of the model *)

MaxDay == 2         \* days are 1..MaxDay
MaxBookings == 2    \* rows of schedules alive at once
MaxSessions == 1    \* sessions purchased by an initial ledger entry
MaxHistory == 4     \* rows of ot_assignment_history
ExtendDays == 7     \* timedelta(days=7)

Days == 1..MaxDay
Times == {9}
ScheduleIds == 1..MaxBookings   \* the schedule ids a request may name
NoId == 0           \* None / NULL for an id column
NoTrainer == "none" \* NULL trainer_id (OT members wait in the pool)

Trainers == {"T1", "T2"}
WorkTypes == {"in", "out"}
Users == {[role |-> "trainer", id |-> "T1"],
          [role |-> "trainer", id |-> "T2"],
          [role |-> "branch_admin", id |-> "B1"],
          [role |-> "main_admin", id |-> "A1"]}

Max0(n) == IF n > 0 THEN n ELSE 0

----------------------------------------------------------------------------
(* The persistence store (schema and constraints are not part of app.py) *)

\* schedules.status DEFAULT: a row inserted without a status is a planned one
DefaultStatus == "planned"

Active(s) == s.status # "cancelled"

\* unique (trainer_id, schedule_date, start_time) over the active bookings:
\* as many distinct slots as active rows
UniqueSlotOk(rows) ==
    LET active == {i \in DOMAIN rows : Active(rows[i])}
    IN Cardinality({<<rows[i].trainer_id, rows[i].date, rows[i].time>> : i \in active})
           = Cardinality(active)

\* unique (ot_assignment_id) over the active bookings linked to an assignment
UniqueOtOk(rows) ==
    LET linked == {i \in DOMAIN rows :
                      Active(rows[i]) /\ rows[i].ot_assignment_id # NoId}
    IN Cardinality({rows[i].ot_assignment_id : i \in linked}) = Cardinality(linked)

\* the store accepts a write of schedules iff the constraints hold afterwards;
\* otherwise it raises the duplicate-key error (23505)
StoreAccepts(rows) == UniqueSlotOk(rows) /\ UniqueOtOk(rows)

\* the id the store gives a new row: one that no row of the table has
FreshId(rows) ==
    CHOOSE i \in 1..(Cardinality(DOMAIN rows) + 1) :
        /\ i \notin DOMAIN rows
        /\ \A j \in 1..(i - 1) : j \in DOMAIN rows

InsertRow(rows, row) == rows @@ (FreshId(rows) :> row)

DeleteRow(rows, id) == [i \in DOMAIN rows \ {id} |-> rows[i]]

----------------------------------------------------------------------------
(* EntitlementLedger *)

CountWith(mid, status) ==
    Cardinality({s \in DOMAIN schedules :
                    schedules[s].member_id = mid /\ schedules[s].status = status})

completed_count(mid) == CountWith(mid, "completed")
planned_count(mid) == CountWith(mid, "planned")
\* the mutant of remaining_sessions: the planned bookings are not counted
remaining_sessions_completed(mid) == members[mid].sessions - completed_count(mid)

remaining_sessions(mid) ==
    members[mid].sessions - (completed_count(mid) + planned_count(mid))

\* .eq(trainer_id).eq(member_name).eq(phone)
PersonEntries(person, trainer_id) ==
    {m \in DOMAIN members :
        members[m].person = person /\ members[m].trainer_id = trainer_id}

\* .order('created_at'): the ids of a set of entries, oldest first
RECURSIVE OrderByCreatedAt(_)
OrderByCreatedAt(S) ==
    IF S = {} THEN <<>>
    ELSE LET m == CHOOSE x \in S :
                     \A y \in S : members[x].created_at <= members[y].created_at
         IN <<m>> \o OrderByCreatedAt(S \ {m})

RECURSIVE SumRemaining(_)
SumRemaining(seq) ==
    IF seq = <<>> THEN 0
    ELSE Max0(remaining_sessions(Head(seq))) + SumRemaining(Tail(seq))

\* the mutant of FirstAvailable: the newest entry with spare capacity
RECURSIVE FirstAvailable_last(_)
FirstAvailable_last(seq) ==
    IF seq = <<>> THEN NoId
    ELSE LET rest == FirstAvailable_last(Tail(seq))
         IN IF rest # NoId THEN rest
            ELSE IF remaining_sessions(Head(seq)) > 0 THEN Head(seq) ELSE NoId

\* "if available_entry is None and remaining > 0: available_entry = entry"
RECURSIVE FirstAvailable(_)
FirstAvailable(seq) ==
    IF seq = <<>> THEN NoId
    ELSE IF remaining_sessions(Head(seq)) > 0 THEN Head(seq)
    ELSE FirstAvailable(Tail(seq))

get_remaining_sessions_for_person(person, trainer_id) ==
    LET entries == OrderByCreatedAt(PersonEntries(person, trainer_id))
    IN [total_remaining |-> SumRemaining(entries),
        entries |-> entries,
        available_entry |-> FirstAvailable(entries)]

----------------------------------------------------------------------------
(* Responses.  resp is the typed result of the request: "ok", "NotFound"  *)
(* (404), "Forbidden" (403), "InvalidState" (400, already processed),      *)
(* "Exhausted" (400, no remaining session), "Conflict" (409 / the          *)
(* duplicate-slot flash), "Error" (500 / the generic error flash), "page"  *)
(* (a rendered page).                                                      *)

Respond(code) == resp' = code

Refuse(code) ==
    /\ Respond(code)
    /\ UNCHANGED <<members, schedules, ot_assignments, today, inflight, history, salary>>

----------------------------------------------------------------------------
(* OTAssignmentEngine: the parts the booking handlers call *)

\* a row of ot_assignment_history (action_by, notes and the timestamp are not
\* kept: no handler reads them)
HistoryRecord(member_id, trainer_id, action) ==
    [member_id |-> member_id, trainer_id |-> trainer_id, action |-> action]

SetAssignmentStatus(asg, id, status) ==
    [a \in DOMAIN asg |-> IF a = id THEN [asg[a] EXCEPT !.status = status]
                          ELSE asg[a]]

\* check_ot_session_completion(member_id), given the assignments after the update
check_ot_session_completion(mem, asg, member_id) ==
    IF member_id \notin DOMAIN mem THEN mem
    ELSE IF mem[member_id].member_type # "OT" THEN mem
    ELSE IF mem[member_id].ot_status \notin {"assigned", "partial", "none"} THEN mem
    ELSE LET mine == {a \in DOMAIN asg : asg[a].member_id = member_id}
             completed == Cardinality({a \in mine : asg[a].status = "completed"})
             total == Cardinality(mine)
         IN IF completed >= mem[member_id].sessions /\ completed > 0
            THEN [mem EXCEPT ![member_id].ot_status = "completed"]
            ELSE IF completed > 0 /\ total < mem[member_id].sessions
            THEN [mem EXCEPT ![member_id].ot_status = "partial"]
            ELSE mem

\* the history rows check_ot_session_completion inserts
ot_completion_history(mem, asg, member_id) ==
    IF check_ot_session_completion(mem, asg, member_id) # mem
       /\ check_ot_session_completion(mem, asg, member_id)[member_id].ot_status
              = "completed"
    THEN <<HistoryRecord(member_id, NoTrainer, "all_completed")>>
    ELSE <<>>

----------------------------------------------------------------------------
(* BookingScheduler *)

NewBooking(trainer_id, member_id, date, time, status, ot_id) ==
    [member_id |-> member_id, trainer_id |-> trainer_id, date |-> date,
     time |-> time, status |-> status, work_type |-> "none",
     signature |-> "none", completed_at |-> "none", ot_assignment_id |-> ot_id]

\* the mutant of auto_cancel_rows: .lte instead of .lt
auto_cancel_rows_lte(rows, day) ==
    [s \in DOMAIN rows |->
        IF rows[s].status = "planned" /\ rows[s].date <= day
        THEN [rows[s] EXCEPT !.status = "cancelled"] ELSE rows[s]]

\* update({status: cancelled}).eq(status, planned).lt(schedule_date, today)
auto_cancel_rows(rows, day) ==
    [s \in DOMAIN rows |->
        IF rows[s].status = "planned" /\ rows[s].date < day
        THEN [rows[s] EXCEPT !.status = "cancelled"] ELSE rows[s]]

\* GET /schedule: auto_cancel_past_sessions(), then the page is rendered.  The
\* swept rows become cancelled, which never violates a store constraint.
ViewSchedule ==
    /\ schedules' = auto_cancel_rows(schedules, today)
    /\ Respond("page")
    /\ UNCHANGED <<members, ot_assignments, today, inflight, history, salary>>

\* POST /schedule/add
AddSchedule(user, member_id, form_trainer, date, time) ==
    LET trainer_id == IF user.role = "trainer" THEN user.id ELSE form_trainer
        row == NewBooking(trainer_id, member_id, date, time, DefaultStatus, NoId)
        rows == InsertRow(schedules, row)
    IN IF member_id \notin DOMAIN members
       THEN Refuse("Error")          \* foreign key violation
       ELSE IF ~StoreAccepts(rows)
       THEN Refuse("Conflict")
       ELSE /\ schedules' = rows
            /\ Respond("ok")
            /\ UNCHANGED <<members, ot_assignments, today, inflight, history, salary>>

\* the permission checks shared by delete_schedule and quick_delete_schedule
DeleteRefusal(user, s) ==
    IF s.status \in {"completed", "cancelled"} /\ user.role # "main_admin"
    THEN "Forbidden"
    ELSE IF s.date < today /\ user.role # "main_admin" THEN "Forbidden"
    ELSE IF user.role = "trainer" /\ s.trainer_id # user.id THEN "Forbidden"
    ELSE "ok"

DeleteHandler(user, sid) ==
    IF sid \notin DOMAIN schedules THEN Refuse("NotFound")
    ELSE IF DeleteRefusal(user, schedules[sid]) # "ok"
    THEN Refuse(DeleteRefusal(user, schedules[sid]))
    ELSE /\ schedules' = DeleteRow(schedules, sid)
         /\ Respond("ok")
         /\ UNCHANGED <<members, ot_assignments, today, inflight, history, salary>>

\* POST /schedule/delete/<schedule_id>
DeleteSchedule(user, sid) == DeleteHandler(user, sid)

\* POST /schedule/quick-delete
QuickDeleteSchedule(user, sid) == DeleteHandler(user, sid)

\* the mutant of MutateRefusal: no status check
MutateRefusal_nostatus(user, s) ==
    IF user.role = "trainer" /\ s.trainer_id # user.id THEN "Forbidden"
    ELSE "ok"

\* the checks shared by complete_session(_ajax) and cancel_session(_ajax)
MutateRefusal(user, s) ==
    IF user.role = "trainer" /\ s.trainer_id # user.id THEN "Forbidden"
    ELSE IF s.status # "planned" THEN "InvalidState"
    ELSE "ok"

CompletedRow(s, work_type) ==
    [s EXCEPT !.status = "completed", !.work_type = work_type,
              !.signature = "sig", !.completed_at = "now"]

\* POST /schedule/complete/<schedule_id> (the form route)
CompleteSession(user, sid, work_type) ==
    IF sid \notin DOMAIN schedules THEN Refuse("NotFound")
    ELSE IF MutateRefusal(user, schedules[sid]) # "ok"
    THEN Refuse(MutateRefusal(user, schedules[sid]))
    ELSE /\ schedules' = [schedules EXCEPT
                              ![sid] = CompletedRow(schedules[sid], work_type)]
         /\ Respond("ok")
         /\ UNCHANGED <<members, ot_assignments, today, inflight, history, salary>>

\* POST /schedule/complete-ajax
CompleteSessionAjax(user, sid, work_type) ==
    IF sid \notin DOMAIN schedules THEN Refuse("NotFound")
    ELSE IF MutateRefusal(user, schedules[sid]) # "ok"
    THEN Refuse(MutateRefusal(user, schedules[sid]))
    ELSE LET s == schedules[sid]
             asg == IF s.ot_assignment_id # NoId
                    THEN SetAssignmentStatus(ot_assignments, s.ot_assignment_id,
                                             "completed")
                    ELSE ot_assignments
         IN /\ schedules' = [schedules EXCEPT ![sid] = CompletedRow(s, work_type)]
            /\ ot_assignments' = asg
            /\ members' = check_ot_session_completion(members, asg, s.member_id)
            /\ history' = history
                   \o (IF s.ot_assignment_id # NoId
                       THEN <<HistoryRecord(s.member_id, s.trainer_id, "completed")>>
                       ELSE <<>>)
                   \o ot_completion_history(members, asg, s.member_id)
            /\ Respond("ok")
            /\ UNCHANGED <<today, inflight, salary>>

CancelHandler(user, sid) ==
    IF sid \notin DOMAIN schedules THEN Refuse("NotFound")
    ELSE IF MutateRefusal(user, schedules[sid]) # "ok"
    THEN Refuse(MutateRefusal(user, schedules[sid]))
    ELSE /\ schedules' = [schedules EXCEPT ![sid].status = "cancelled"]
         /\ Respond("ok")
         /\ UNCHANGED <<members, ot_assignments, today, inflight, history, salary>>

\* POST /schedule/cancel/<schedule_id>
CancelSession(user, sid) == CancelHandler(user, sid)

\* POST /schedule/cancel-ajax
CancelSessionAjax(user, sid) == CancelHandler(user, sid)

EditedRow(s, new_status, work_type) ==
    IF new_status = "completed"
    THEN [s EXCEPT !.status = new_status,
                   !.work_type = IF work_type # "none" THEN work_type ELSE "in",
                   !.completed_at = "now"]
    ELSE IF new_status = "planned"
    THEN [s EXCEPT !.status = new_status, !.work_type = "none",
                   !.completed_at = "none", !.signature = "none"]
    ELSE [s EXCEPT !.status = new_status]

\* POST /schedule/edit-status (@role_required('main_admin'))
EditScheduleStatus(user, sid, new_status, work_type) ==
    IF user.role # "main_admin" THEN Refuse("Forbidden")
    ELSE IF sid \notin DOMAIN schedules THEN Refuse("NotFound")
    ELSE LET rows == [schedules EXCEPT
                         ![sid] = EditedRow(schedules[sid], new_status, work_type)]
         IN IF ~StoreAccepts(rows) THEN Refuse("Error")
            ELSE /\ schedules' = rows
                 /\ Respond("ok")
                 /\ UNCHANGED <<members, ot_assignments, today, inflight, history, salary>>

\* quick_add_schedule up to the insert: the member lookup, the ownership check,
\* the OT assignment checks or the remaining-session check.  The result is the
\* refusal, or "ok" with the row to insert.
QuickAddCheck(user, member_id, date, time, ot_id) ==
    IF member_id \notin DOMAIN members THEN [code |-> "NotFound"]
    ELSE
    LET member == members[member_id]
        has_ot == ot_id # NoId /\ ot_id \in DOMAIN ot_assignments
        is_own_member == member.trainer_id = user.id
        is_ot_assigned == /\ ~is_own_member
                          /\ has_ot
                          /\ ot_assignments[ot_id].trainer_id = user.id
                          /\ ot_assignments[ot_id].member_id = member_id
        trainer_id == IF user.role = "trainer" THEN user.id
                      ELSE IF member.trainer_id = NoTrainer /\ has_ot
                      THEN ot_assignments[ot_id].trainer_id
                      ELSE member.trainer_id
        session_info == get_remaining_sessions_for_person(member.person, trainer_id)
        target_member_id == IF ot_id = NoId /\ session_info.available_entry # NoId
                            THEN session_info.available_entry
                            ELSE member_id
    IN IF user.role = "trainer" /\ ~is_own_member /\ ~is_ot_assigned
       THEN [code |-> "Forbidden"]
       ELSE IF ot_id # NoId
       THEN IF ~has_ot THEN [code |-> "OTNotFound"]
            ELSE IF ot_assignments[ot_id].status \notin {"assigned", "scheduled"}
            THEN [code |-> "InvalidState"]
            ELSE IF \E s \in DOMAIN schedules :
                       /\ schedules[s].ot_assignment_id = ot_id
                       /\ schedules[s].status \in {"planned", "completed"}
            THEN [code |-> "AlreadyScheduled"]
            ELSE [code |-> "ok",
                  row |-> NewBooking(trainer_id, target_member_id, date, time,
                                     "planned", ot_id)]
       \* a NULL trainer_id matches no row of members
       ELSE IF trainer_id = NoTrainer THEN [code |-> "Exhausted"]
       ELSE IF session_info.total_remaining <= 0 THEN [code |-> "Exhausted"]
       ELSE [code |-> "ok",
             row |-> NewBooking(trainer_id, target_member_id, date, time,
                                "planned", NoId)]

\* the mutant of QuickAddWrite for the slot invariant: the duplicate-key error
\* is never raised and the row goes in
QuickAddWrite_unchecked(row) ==
    [code |-> "ok", schedules |-> InsertRow(schedules, row),
     ot_assignments |-> ot_assignments, history |-> history]

\* the mutant of QuickAddWrite for the race: an upsert on the slot, which
\* replaces the active booking that holds it
QuickAddWrite_upsert(row) ==
    LET kept == {s \in DOMAIN schedules :
                    ~(/\ Active(schedules[s])
                      /\ schedules[s].trainer_id = row.trainer_id
                      /\ schedules[s].date = row.date
                      /\ schedules[s].time = row.time)}
    IN [code |-> "ok",
        schedules |-> InsertRow([s \in kept |-> schedules[s]], row),
        ot_assignments |-> ot_assignments, history |-> history]

\* the writes of quick_add_schedule: the insert, which the store may refuse
\* with the duplicate-key error (409), then the OT assignment's new status
QuickAddWrite(row) ==
    LET rows == InsertRow(schedules, row)
    IN IF ~StoreAccepts(rows)
       THEN [code |-> "Conflict", schedules |-> schedules,
             ot_assignments |-> ot_assignments, history |-> history]
       ELSE [code |-> "ok", schedules |-> rows,
             ot_assignments |->
                 IF row.ot_assignment_id # NoId
                 THEN SetAssignmentStatus(ot_assignments, row.ot_assignment_id,
                                          "scheduled")
                 ELSE ot_assignments,
             history |->
                 IF row.ot_assignment_id # NoId
                 THEN Append(history, HistoryRecord(row.member_id, row.trainer_id,
                                                    "scheduled"))
                 ELSE history]

\* POST /schedule/quick-add
QuickAddSchedule(user, member_id, date, time, ot_id) ==
    LET check == QuickAddCheck(user, member_id, date, time, ot_id)
    IN IF check.code # "ok" THEN Refuse(check.code)
       ELSE LET w == QuickAddWrite(check.row)
            IN /\ schedules' = w.schedules
               /\ ot_assignments' = w.ot_assignments
               /\ history' = w.history
               /\ Respond(w.code)
               /\ UNCHANGED <<members, today, inflight, salary>>

----------------------------------------------------------------------------
(* SettlementEngine.  Amounts are won.  A month is a period of MonthDays   *)
(* days counted from day 1; MonthOf is the month_start of a date.          *)

Null == -1   \* None / NULL for a numeric column

MonthDays == 30
MonthOf(day) == (day - 1) \div MonthDays

\* calculate_incentive(sales_amount, settings): the settings are not read.
\* int(sales_amount * 0.17) is (17 * sales_amount) \div 100 for every amount
\* used here (multiples of 500,000).
calculate_incentive(sales_amount) ==
    IF sales_amount >= 20000000 THEN (sales_amount * 17) \div 100 + 1000000
    ELSE IF sales_amount >= 15000000 THEN (sales_amount * 17) \div 100 + 500000
    ELSE IF sales_amount >= 12000000 THEN (sales_amount * 17) \div 100
    ELSE IF sales_amount >= 10000000 THEN 1400000
    ELSE IF sales_amount >= 8000000 THEN 880000
    ELSE IF sales_amount >= 6500000 THEN 520000
    ELSE IF sales_amount >= 4500000 THEN 225000
    ELSE 0

\* calculate_master_trainer_bonus with the default master_threshold and
\* master_bonus: six_month_sales / 6 >= 9,000,000
calculate_master_trainer_bonus(six_month_sales) ==
    IF six_month_sales >= 6 * 9000000 THEN 300000 ELSE 0

\* calculate_lesson_fee_rate(sales_amount, settings): the settings are not read
calculate_lesson_fee_rate(sales_amount) ==
    IF sales_amount >= 12000000 THEN 35
    ELSE IF sales_amount >= 10000000 THEN 34
    ELSE IF sales_amount >= 8000000 THEN 33
    ELSE IF sales_amount >= 6500000 THEN 32
    ELSE IF sales_amount >= 4500000 THEN 31
    ELSE IF sales_amount >= 3000000 THEN 30
    ELSE 10

\* calculate_lesson_fee_rate_other with the default other_threshold, other_rate
calculate_lesson_fee_rate_other(sales_amount) ==
    IF sales_amount > 5000000 THEN 40
    ELSE calculate_lesson_fee_rate(sales_amount)

calculate_class_incentive(class_count, sales_amount) ==
    IF sales_amount <= 3000000 THEN 0
    ELSE IF class_count >= 100 THEN 1000000
    ELSE IF class_count >= 70 THEN 800000
    ELSE IF class_count >= 50 THEN 600000
    ELSE IF class_count >= 30 THEN 400000
    ELSE 0

\* sessions * unit_price, * 0.5 for the channel WI (the unit prices used are
\* even, so the half is a whole amount)
calculate_member_sales_contribution(member) ==
    IF member.channel = "WI" THEN (member.sessions * member.unit_price) \div 2
    ELSE member.sessions * member.unit_price

\* sum of the contributions of the entries ids
RECURSIVE SumSales(_, _)
SumSales(mem, ids) ==
    IF ids = {} THEN 0
    ELSE LET m == CHOOSE x \in ids : TRUE
         IN calculate_member_sales_contribution(mem[m]) + SumSales(mem, ids \ {m})

\* .eq('trainer_id', ...).gte('created_at', from).lt('created_at', next_month)
MembersCreated(mem, trainer_id, from_month, month) ==
    {m \in DOMAIN mem : /\ mem[m].trainer_id = trainer_id
                        /\ MonthOf(mem[m].created_at) >= from_month
                        /\ MonthOf(mem[m].created_at) <= month}

\* calculate_trainer_incentives_for_month: incentive + master bonus;
\* exclude_member_id is NoId for None
calculate_trainer_incentives_for_month(mem, trainer_id, month, exclude_member_id) ==
    LET sales == SumSales(mem, MembersCreated(mem, trainer_id, month, month)
                                   \ {exclude_member_id})
        six_month_sales ==
            SumSales(mem, MembersCreated(mem, trainer_id, month - 5, month)
                              \ {exclude_member_id})
    IN calculate_incentive(sales) + calculate_master_trainer_bonus(six_month_sales)

\* the mutant of calculate_refund_deduction: the month of the refund is taken
\* instead of the month the entry was created in
calculate_refund_deduction_now(mem, member_id, now) ==
    calculate_trainer_incentives_for_month(mem, mem[member_id].trainer_id,
                                           MonthOf(now), NoId)
    - calculate_trainer_incentives_for_month(mem, mem[member_id].trainer_id,
                                             MonthOf(now), member_id)

\* calculate_refund_deduction(member_id): original - adjusted incentives of
\* the month the entry was created in (now is not read)
calculate_refund_deduction(mem, member_id, now) ==
    calculate_trainer_incentives_for_month(mem, mem[member_id].trainer_id,
                                           MonthOf(mem[member_id].created_at), NoId)
    - calculate_trainer_incentives_for_month(mem, mem[member_id].trainer_id,
                                             MonthOf(mem[member_id].created_at),
                                             member_id)

\* sum of the unit prices of the completed bookings ids, 0 for a booking of
\* an entry that is not the trainer's
RECURSIVE lesson_fee_base(_, _, _, _)
lesson_fee_base(mem, rows, trainer_id, ids) ==
    IF ids = {} THEN 0
    ELSE LET s == CHOOSE x \in ids : TRUE
             m == rows[s].member_id
         IN (IF m \in DOMAIN mem /\ mem[m].trainer_id = trainer_id
             THEN mem[m].unit_price ELSE 0)
            + lesson_fee_base(mem, rows, trainer_id, ids \ {s})

\* sum of refund_amount over the trainer's refunded entries applied to month
RECURSIVE SumRefunds(_, _)
SumRefunds(mem, ids) ==
    IF ids = {} THEN 0
    ELSE LET m == CHOOSE x \in ids : TRUE
         IN (IF mem[m].refund_amount = Null THEN 0 ELSE mem[m].refund_amount)
            + SumRefunds(mem, ids \ {m})

refund_deductions(mem, trainer_id, month) ==
    SumRefunds(mem, {m \in DOMAIN mem : /\ mem[m].trainer_id = trainer_id
                                        /\ mem[m].refund_status = "refunded"
                                        /\ mem[m].refund_applied_month = month})

\* salary(), the trainer's view of a month: the entry of trainer_data.  The
\* tables salary_adjustments and trainer_dayoffs are empty, and an OT
\* incentive needs 10 OT sessions in the month, so these three terms are 0.
trainer_data(mem, rows, trainer_id, month) ==
    LET sales == SumSales(mem, MembersCreated(mem, trainer_id, month, month))
        six_month_sales ==
            SumSales(mem, MembersCreated(mem, trainer_id, month - 5, month))
        schedules_list == {s \in DOMAIN rows : /\ rows[s].trainer_id = trainer_id
                                               /\ rows[s].status = "completed"
                                               /\ MonthOf(rows[s].date) = month}
        main == {s \in schedules_list : rows[s].work_type = "in"}
        incentive == calculate_incentive(sales)
        master_bonus == calculate_master_trainer_bonus(six_month_sales)
        lesson_fee_main ==
            (lesson_fee_base(mem, rows, trainer_id, main)
                 * calculate_lesson_fee_rate(sales)) \div 100
        lesson_fee_other ==
            (lesson_fee_base(mem, rows, trainer_id, schedules_list \ main)
                 * calculate_lesson_fee_rate_other(sales)) \div 100
        class_incentive ==
            calculate_class_incentive(Cardinality(schedules_list), sales)
        refund_deduction == refund_deductions(mem, trainer_id, month)
    IN [sales |-> sales,
        incentive |-> incentive,
        lesson_fee_rate_main |-> calculate_lesson_fee_rate(sales),
        refund_deduction |-> refund_deduction,
        total_salary |-> incentive + class_incentive + master_bonus
                         + lesson_fee_main + lesson_fee_other
                         - refund_deduction]

\* GET /salary?month=... by a trainer
ViewSalary(user, month) ==
    /\ user.role = "trainer"
    /\ salary' = trainer_data(members, schedules, user.id, month)
    /\ Respond("salary")
    /\ UNCHANGED <<members, schedules, ot_assignments, today, inflight, history>>

----------------------------------------------------------------------------
(* Refund and transfer: the writes to the ledger entry *)

\* update_data of refund_member; deduction is deduction_amount
refund_update(member, completed_sessions, deduction, user, now) ==
    [member EXCEPT
        !.refund_status = "refunded",
        !.original_sessions = member.sessions,
        !.sessions = completed_sessions,
        !.refund_amount =
            IF MonthOf(member.created_at) # MonthOf(now) THEN deduction ELSE 0,
        !.refund_sessions = member.sessions - completed_sessions,
        !.refund_original_month = MonthOf(member.created_at),
        !.refund_applied_month = MonthOf(now),
        !.refunded_at = now,
        !.refunded_by = user.id]

\* deduction_amount of refund_member: computed only for an entry of an
\* earlier month with money to give back
deduction_amount(mem, member_id, completed_sessions, now) ==
    LET member == mem[member_id]
        refund_amount == member.sessions * member.unit_price
                             - completed_sessions * member.unit_price
    IN IF MonthOf(member.created_at) # MonthOf(now) /\ refund_amount > 0
       THEN calculate_refund_deduction(mem, member_id, now)
       ELSE 0

\* POST /members/<member_id>/refund
RefundMember(user, member_id) ==
    IF member_id \notin DOMAIN members THEN Refuse("NotFound")
    ELSE LET member == members[member_id]
             completed_sessions == completed_count(member_id)
         IN IF member.refund_status = "refunded"
            THEN Refuse("AlreadyRefunded")
            ELSE IF user.role = "trainer" /\ member.trainer_id # user.id
            THEN Refuse("Forbidden")
            ELSE /\ members' = [members EXCEPT ![member_id] =
                        refund_update(member, completed_sessions,
                                      deduction_amount(members, member_id,
                                                       completed_sessions, today),
                                      user, today)]
                 /\ Respond("ok")
                 /\ UNCHANGED <<schedules, ot_assignments, today, inflight, history, salary>>

\* update_data of cancel_refund
cancel_refund_update(member) ==
    [member EXCEPT
        !.refund_status = "none",
        !.refund_amount = Null,
        !.refund_sessions = Null,
        !.refund_original_month = Null,
        !.refund_applied_month = Null,
        !.refunded_at = Null,
        !.refunded_by = "none",
        !.original_sessions = Null,
        \* "if original_sessions:" is false for None and for 0
        !.sessions = IF member.original_sessions # Null
                        /\ member.original_sessions # 0
                     THEN member.original_sessions ELSE member.sessions]

\* the mutant of CancelRefund: no role check
CancelRefund_anyone(user, member_id) ==
    IF member_id \notin DOMAIN members THEN Refuse("NotFound")
    ELSE IF members[member_id].refund_status # "refunded"
    THEN Refuse("NotRefunded")
    ELSE /\ members' = [members EXCEPT ![member_id] =
                cancel_refund_update(members[member_id])]
         /\ Respond("ok")
         /\ UNCHANGED <<schedules, ot_assignments, today, inflight, history, salary>>

\* POST /members/<member_id>/cancel-refund
CancelRefund(user, member_id) ==
    IF user.role # "main_admin" THEN Refuse("Forbidden")
    ELSE IF member_id \notin DOMAIN members THEN Refuse("NotFound")
    ELSE IF members[member_id].refund_status # "refunded"
    THEN Refuse("NotRefunded")
    ELSE /\ members' = [members EXCEPT ![member_id] =
                cancel_refund_update(members[member_id])]
         /\ Respond("ok")
         /\ UNCHANGED <<schedules, ot_assignments, today, inflight, history, salary>>

UnitPrice == 500000   \* unit_price of an entry, where no other is stated

NewMember(person, trainer_id, sessions, created_at, transfer_status) ==
    [person |-> person, trainer_id |-> trainer_id, sessions |-> sessions,
     created_at |-> created_at, member_type |-> "regular",
     unit_price |-> UnitPrice, channel |-> "direct",
     refund_status |-> "none", original_sessions |-> Null,
     refund_amount |-> Null, refund_sessions |-> Null,
     refund_original_month |-> Null, refund_applied_month |-> Null,
     refunded_at |-> Null, refunded_by |-> "none",
     transfer_status |-> transfer_status,
     ot_status |-> "none", ot_remaining_sessions |-> Null]

\* created_at DEFAULT now(): the day, and later than every row there is
Now(mem) ==
    LET latest == CHOOSE t \in {mem[m].created_at : m \in DOMAIN mem} :
                      \A m \in DOMAIN mem : mem[m].created_at <= t
    IN IF today > latest THEN today ELSE latest + 1

\* delete().eq(member_id).eq(status, '계획').gte('date', today): no row of
\* schedules has the status '계획', so the delete removes nothing
TransferDeletes(rows, member_id) ==
    {s \in DOMAIN rows : /\ rows[s].member_id = member_id
                         /\ rows[s].status = "plan"
                         /\ rows[s].date >= today}

\* The delete is the last request of transfer_member and the only statement
\* of app.py that names a column 'date' of schedules (the day of a booking is
\* schedule_date).  A store whose table has the column runs the delete and
\* the handler answers success; a store whose table has no such column raises,
\* after the two writes to members, and the handler answers with the error
\* flash.
TransferOutcomes == {"ok", "Error"}

\* the mutant of TransferMember: the new entry receives all the sessions of
\* the source, the completed ones too
TransferMember_whole(user, member_id, new_trainer_id) ==
    IF member_id \notin DOMAIN members THEN Refuse("NotFound")
    ELSE LET member == members[member_id]
             completed_sessions == completed_count(member_id)
             remaining == member.sessions - completed_sessions
         IN IF user.role = "trainer" /\ member.trainer_id # user.id
            THEN Refuse("Forbidden")
            ELSE IF member.refund_status = "refunded"
            THEN Refuse("Refunded")
            ELSE IF member.transfer_status = "transferred"
            THEN Refuse("AlreadyTransferred")
            ELSE IF member.trainer_id = NoTrainer
            THEN Refuse("NotFound")
            ELSE IF new_trainer_id \notin Trainers \ {member.trainer_id}
            THEN Refuse("Invalid")
            ELSE IF remaining <= 0 THEN Refuse("Exhausted")
            ELSE /\ members' = InsertRow(
                        [members EXCEPT
                            ![member_id].transfer_status = "transferred",
                            ![member_id].original_sessions = member.sessions,
                            ![member_id].sessions = completed_sessions],
                        [NewMember(member.person, new_trainer_id, member.sessions,
                                   Now(members), "received") EXCEPT
                            !.unit_price = member.unit_price,
                            !.channel = member.channel])
                 /\ \E code \in TransferOutcomes : Respond(code)
                 /\ UNCHANGED <<schedules, ot_assignments, today, inflight,
                                history, salary>>

\* POST /members/<member_id>/transfer
TransferMember(user, member_id, new_trainer_id) ==
    IF member_id \notin DOMAIN members THEN Refuse("NotFound")
    ELSE LET member == members[member_id]
             completed_sessions == completed_count(member_id)
             remaining == member.sessions - completed_sessions
             gone == TransferDeletes(schedules, member_id)
         IN IF user.role = "trainer" /\ member.trainer_id # user.id
            THEN Refuse("Forbidden")
            ELSE IF member.refund_status = "refunded"
            THEN Refuse("Refunded")
            ELSE IF member.transfer_status = "transferred"
            THEN Refuse("AlreadyTransferred")
            ELSE IF member.trainer_id = NoTrainer
            THEN Refuse("NotFound")
            ELSE IF new_trainer_id \notin Trainers \ {member.trainer_id}
            THEN Refuse("Invalid")
            ELSE IF remaining <= 0 THEN Refuse("Exhausted")
            ELSE /\ members' = InsertRow(
                        [members EXCEPT
                            ![member_id].transfer_status = "transferred",
                            ![member_id].original_sessions = member.sessions,
                            ![member_id].sessions = completed_sessions],
                        [NewMember(member.person, new_trainer_id, remaining,
                                   Now(members), "received") EXCEPT
                            !.unit_price = member.unit_price,
                            !.channel = member.channel])
                 /\ \E code \in TransferOutcomes :
                        /\ schedules' = IF code = "ok"
                                        THEN [s \in DOMAIN schedules \ gone |->
                                                 schedules[s]]
                                        ELSE schedules
                        /\ Respond(code)
                 /\ UNCHANGED <<ot_assignments, today, inflight, history, salary>>

----------------------------------------------------------------------------
(* OTAssignmentEngine: assign, expiry sweep, reclaim, extend.  The clock   *)
(* counts days: today is datetime.now(KST).                                *)

\* @role_required('main_admin', 'branch_admin')
AdminRoles == {"main_admin", "branch_admin"}

\* the mutant of assignment_count: returned rows are not counted
assignment_count_active(asg, member_id) ==
    Cardinality({a \in DOMAIN asg : /\ asg[a].member_id = member_id
                                    /\ asg[a].status # "returned"})

\* len(select('id').eq('member_id', member_id))
assignment_count(asg, member_id) ==
    Cardinality({a \in DOMAIN asg : asg[a].member_id = member_id})

NewAssignment(member_id, trainer_id, session_number, now) ==
    [member_id |-> member_id, trainer_id |-> trainer_id,
     session_number |-> session_number, status |-> "assigned",
     assigned_at |-> now, deadline |-> now + ExtendDays, extended |-> FALSE]

\* for i in range(assign_sessions): insert, session_number = current_count + i + 1
RECURSIVE InsertAssignments(_, _, _, _, _, _)
InsertAssignments(asg, member_id, trainer_id, current_count, i, assign_sessions) ==
    IF i >= assign_sessions THEN asg
    ELSE InsertAssignments(
             InsertRow(asg, NewAssignment(member_id, trainer_id,
                                          current_count + i + 1, today)),
             member_id, trainer_id, current_count, i + 1, assign_sessions)

\* POST /ot-members/<member_id>/assign
AssignOtMember(user, member_id, trainer_id, form_sessions) ==
    IF user.role \notin AdminRoles THEN Refuse("Forbidden")
    ELSE IF trainer_id = NoTrainer THEN Refuse("Invalid")
    ELSE IF member_id \notin DOMAIN members THEN Refuse("NotFound")
    ELSE IF members[member_id].member_type # "OT" THEN Refuse("InvalidState")
    \* None <= 0 raises, and the handler flashes the generic error
    ELSE IF members[member_id].ot_remaining_sessions = Null THEN Refuse("Error")
    ELSE IF members[member_id].ot_remaining_sessions <= 0 THEN Refuse("Exhausted")
    ELSE LET remaining == members[member_id].ot_remaining_sessions
             assign_sessions == IF form_sessions > remaining THEN remaining
                                ELSE form_sessions
             current_count == assignment_count(ot_assignments, member_id)
             new_remaining == remaining - assign_sessions
         IN /\ ot_assignments' = InsertAssignments(ot_assignments, member_id,
                                     trainer_id, current_count, 0, assign_sessions)
            /\ members' = [members EXCEPT
                   ![member_id].ot_remaining_sessions = new_remaining,
                   ![member_id].ot_status = IF new_remaining = 0 THEN "assigned"
                                            ELSE "partial"]
            /\ history' = Append(history,
                                 HistoryRecord(member_id, trainer_id, "assigned"))
            /\ Respond("ok")
            /\ UNCHANGED <<schedules, today, inflight, salary>>

\* the mutant of expired_assignments: scheduled rows are selected too
expired_assignments_scheduled(asg, now) ==
    {a \in DOMAIN asg : /\ asg[a].status \in {"assigned", "scheduled"}
                        /\ asg[a].deadline < now}

\* select.eq('status', 'assigned').lt('deadline', now)
expired_assignments(asg, now) ==
    {a \in DOMAIN asg : asg[a].status = "assigned" /\ asg[a].deadline < now}

\* the completed check of the sweep: a completed booking of the same member
\* with the same trainer, whichever assignment it belongs to
has_completed_schedule(assignment) ==
    \E s \in DOMAIN schedules : /\ schedules[s].member_id = assignment.member_id
                                /\ schedules[s].trainer_id = assignment.trainer_id
                                /\ schedules[s].status = "completed"

\* the mutant of return_expired_assignment: the return is not logged
return_expired_assignment_unlogged(db, a) ==
    LET assignment == db.ot_assignments[a]
        member_id == assignment.member_id
        asg == SetAssignmentStatus(db.ot_assignments, a, "returned")
        old == db.members[member_id].ot_remaining_sessions
        new_remaining == (IF old = Null THEN 0 ELSE old) + 1
    IN IF has_completed_schedule(assignment) THEN db
       ELSE [ot_assignments |-> asg,
             members |->
                 IF member_id \in DOMAIN db.members
                 THEN [db.members EXCEPT
                          ![member_id].ot_remaining_sessions = new_remaining,
                          ![member_id].ot_status = "unassigned"]
                 ELSE db.members,
             history |-> db.history]

\* one pass of the loop body over the row a; db holds the three tables written
return_expired_assignment(db, a) ==
    LET assignment == db.ot_assignments[a]
        member_id == assignment.member_id
        asg == SetAssignmentStatus(db.ot_assignments, a, "returned")
        old == db.members[member_id].ot_remaining_sessions
        new_remaining == (IF old = Null THEN 0 ELSE old) + 1
        others == {b \in DOMAIN asg : /\ asg[b].member_id = member_id
                                      /\ asg[b].status = "assigned"}
        \* the member row was selected without the column sessions, so
        \* .get('sessions', 1) is 1
        new_status == IF new_remaining >= 1 THEN "unassigned"
                      ELSE IF others # {} THEN "partial" ELSE "unassigned"
    IN IF has_completed_schedule(assignment) THEN db
       ELSE [ot_assignments |-> asg,
             members |->
                 IF member_id \in DOMAIN db.members
                 THEN [db.members EXCEPT
                          ![member_id].ot_remaining_sessions = new_remaining,
                          ![member_id].ot_status = new_status]
                 ELSE db.members,
             history |-> Append(db.history,
                                HistoryRecord(member_id, assignment.trainer_id,
                                              "returned"))]

Lowest(ids) == CHOOSE a \in ids : \A b \in ids : a <= b

\* for assignment in expired_assignments: ..., the rows taken in id order
RECURSIVE return_each(_, _)
return_each(db, ids) ==
    IF ids = {} THEN db
    ELSE return_each(return_expired_assignment(db, Lowest(ids)),
                     ids \ {Lowest(ids)})

\* the three tables the sweep writes, as they are now
Tables ==
    [ot_assignments |-> ot_assignments, members |-> members, history |-> history]

\* check_and_return_expired_ot_members() on the tables db at the time now.
\* failing is the row whose first request raises (NoId: none does): the one
\* try block around the loop ends the run there, and the rows after it are
\* not visited.
check_and_return_expired_ot_members(db, now, failing) ==
    LET expired == expired_assignments(db.ot_assignments, now)
        visited == IF failing \in expired
                   THEN {a \in expired : a < failing} ELSE expired
    IN return_each(db, visited)

\* GET /ot-members: the sweep, then the page
ViewOtMembers(user, failing) ==
    IF user.role \notin AdminRoles THEN Refuse("Forbidden")
    ELSE LET db == check_and_return_expired_ot_members(Tables, today, failing)
         IN /\ ot_assignments' = db.ot_assignments
            /\ members' = db.members
            /\ history' = db.history
            /\ Respond("ot_page")
            /\ UNCHANGED <<schedules, today, inflight, salary>>

\* the mutant of ReclaimOtMember: the scheduled assignments are returned too
ReclaimOtMember_scheduled(user, member_id) ==
    IF user.role \notin AdminRoles THEN Refuse("Forbidden")
    ELSE IF member_id \notin DOMAIN members THEN Refuse("NotFound")
    ELSE IF members[member_id].ot_status \notin {"assigned", "partial"}
    THEN Refuse("InvalidState")
    ELSE /\ ot_assignments' =
                [a \in DOMAIN ot_assignments |->
                    IF /\ ot_assignments[a].member_id = member_id
                       /\ ot_assignments[a].status \in {"assigned", "scheduled"}
                    THEN [ot_assignments[a] EXCEPT !.status = "returned"]
                    ELSE ot_assignments[a]]
         /\ members' = [members EXCEPT
                ![member_id].ot_status = "unassigned",
                ![member_id].ot_remaining_sessions = members[member_id].sessions]
         /\ history' = Append(history,
                              HistoryRecord(member_id, NoTrainer, "returned"))
         /\ Respond("ok")
         /\ UNCHANGED <<schedules, today, inflight, salary>>

\* POST /ot-members/<member_id>/reclaim
ReclaimOtMember(user, member_id) ==
    IF user.role \notin AdminRoles THEN Refuse("Forbidden")
    ELSE IF member_id \notin DOMAIN members THEN Refuse("NotFound")
    ELSE IF members[member_id].ot_status \notin {"assigned", "partial"}
    THEN Refuse("InvalidState")
    ELSE /\ ot_assignments' =
                [a \in DOMAIN ot_assignments |->
                    IF /\ ot_assignments[a].member_id = member_id
                       /\ ot_assignments[a].status = "assigned"
                    THEN [ot_assignments[a] EXCEPT !.status = "returned"]
                    ELSE ot_assignments[a]]
         /\ members' = [members EXCEPT
                ![member_id].ot_status = "unassigned",
                ![member_id].ot_remaining_sessions = members[member_id].sessions]
         /\ history' = Append(history,
                              HistoryRecord(member_id, NoTrainer, "returned"))
         /\ Respond("ok")
         /\ UNCHANGED <<schedules, today, inflight, salary>>

\* the mutant of ExtendRefusal: the extended flag is not looked at
ExtendRefusal_noflag(user, assignment) ==
    IF user.role = "trainer" /\ assignment.trainer_id # user.id THEN "Forbidden"
    ELSE IF assignment.status # "assigned" THEN "InvalidState"
    ELSE "ok"

\* the checks of extend_ot_assignment, in the order of the code
ExtendRefusal(user, assignment) ==
    IF user.role = "trainer" /\ assignment.trainer_id # user.id THEN "Forbidden"
    ELSE IF assignment.extended THEN "AlreadyExtended"
    ELSE IF assignment.status # "assigned" THEN "InvalidState"
    ELSE "ok"

\* POST /ot-assignments/<assignment_id>/extend
ExtendOtAssignment(user, assignment_id) ==
    IF assignment_id \notin DOMAIN ot_assignments THEN Refuse("NotFound")
    ELSE IF ExtendRefusal(user, ot_assignments[assignment_id]) # "ok"
    THEN Refuse(ExtendRefusal(user, ot_assignments[assignment_id]))
    ELSE LET assignment == ot_assignments[assignment_id]
         IN /\ ot_assignments' = [ot_assignments EXCEPT
                   ![assignment_id].deadline = assignment.deadline + ExtendDays,
                   ![assignment_id].extended = TRUE]
            /\ history' = Append(history,
                                 HistoryRecord(assignment.member_id,
                                               assignment.trainer_id, "extended"))
            /\ Respond("ok")
            /\ UNCHANGED <<members, schedules, today, inflight, salary>>

\* POST /ot-members/<member_id>/increase-sessions
IncreaseOtSessions(user, member_id, additional_sessions) ==
    IF user.role \notin AdminRoles THEN Refuse("Forbidden")
    ELSE IF member_id \notin DOMAIN members THEN Refuse("NotFound")
    ELSE IF members[member_id].member_type # "OT" THEN Refuse("InvalidState")
    ELSE LET member == members[member_id]
             new_sessions == member.sessions + additional_sessions
             new_remaining == (IF member.ot_remaining_sessions = Null THEN 0
                               ELSE member.ot_remaining_sessions)
                                  + additional_sessions
             new_status == IF new_remaining > 0
                              /\ member.ot_status \in {"assigned", "completed"}
                           THEN "partial" ELSE member.ot_status
         IN /\ members' = [members EXCEPT
                   ![member_id].sessions = new_sessions,
                   ![member_id].ot_remaining_sessions = new_remaining,
                   ![member_id].ot_status = new_status]
            /\ history' = Append(history, HistoryRecord(member_id, NoTrainer,
                                                        "sessions_increased"))
            /\ Respond("ok")
            /\ UNCHANGED <<schedules, ot_assignments, today, inflight, salary>>

----------------------------------------------------------------------------
(* Time *)

Tick ==
    /\ today < MaxDay
    /\ today' = today + 1
    /\ UNCHANGED <<members, schedules, ot_assignments, resp, inflight, history, salary>>

----------------------------------------------------------------------------
(* The database at the start.  One person (kim, of trainer T1) holds two   *)
(* ledger entries, the one with the larger id being the older purchase.    *)

KimEntries(s1, s2) ==
    (1 :> NewMember("kim", "T1", s1, 2, "none")) @@
    (2 :> NewMember("kim", "T1", s2, 1, "none"))

NoSalary == [sales |-> Null]   \* no salary page rendered yet

NoResponse == "none"

Init ==
    /\ \E s1, s2 \in 1..MaxSessions : members = KimEntries(s1, s2)
    /\ schedules = <<>>
    /\ ot_assignments = <<>>
    /\ today = 1
    /\ resp = NoResponse
    /\ inflight = <<>>
    /\ history = <<>>
    /\ salary = NoSalary

\* the requests explored are those that leave at most MaxBookings rows
HasRoom == Cardinality(DOMAIN schedules') <= MaxBookings

\* and at most MaxHistory rows of ot_assignment_history
HasLogRoom == Len(history') <= MaxHistory

\* ids a request may name: the rows there are and one id of no row
MemberInputs == DOMAIN members \cup {FreshId(members)}
AssignmentInputs == DOMAIN ot_assignments \cup {FreshId(ot_assignments)}

\* Slots: bookings are inserted, cancelled, swept and edited by main_admin
Next ==
    \/ Tick
    \/ ViewSchedule
    \/ \E user \in Users, m \in MemberInputs, d \in Days, t \in Times :
          /\ QuickAddSchedule(user, m, d, t, NoId)
          /\ HasRoom
    \/ \E user \in Users, m \in MemberInputs, tr \in Trainers, d \in Days, t \in Times :
          /\ AddSchedule(user, m, tr, d, t)
          /\ HasRoom
    \/ \E user \in Users, s \in ScheduleIds : CancelSession(user, s)
    \/ \E user \in Users, s \in ScheduleIds : CancelSessionAjax(user, s)
    \/ \E user \in Users, s \in ScheduleIds,
          st \in {"planned", "completed", "cancelled"}, w \in WorkTypes \cup {"none"} :
          EditScheduleStatus(user, s, st, w)

Spec == Init /\ [][Next]_vars

\* The lifecycle of a booking: made, then completed, cancelled, swept or deleted
NextLife ==
    \/ Tick
    \/ ViewSchedule
    \/ \E user \in Users, m \in MemberInputs, d \in Days, t \in Times :
          /\ QuickAddSchedule(user, m, d, t, NoId)
          /\ HasRoom
    \/ \E user \in Users, s \in ScheduleIds : DeleteSchedule(user, s)
    \/ \E user \in Users, s \in ScheduleIds : QuickDeleteSchedule(user, s)
    \/ \E user \in Users, s \in ScheduleIds, w \in WorkTypes :
          CompleteSession(user, s, w)
    \/ \E user \in Users, s \in ScheduleIds, w \in WorkTypes :
          CompleteSessionAjax(user, s, w)
    \/ \E user \in Users, s \in ScheduleIds : CancelSession(user, s)
    \/ \E user \in Users, s \in ScheduleIds : CancelSessionAjax(user, s)

SpecLife == Init /\ [][NextLife]_vars


----------------------------------------------------------------------------
(* FIFO allocation: the older entry (id 2) holds 3 sessions, the newer     *)
(* (id 1) holds 2, and bookings are made through quick_add_schedule only.  *)

FifoDays == 3
FifoTimes == {9, 10}
\* the owning trainer and another trainer
FifoUsers == {u \in Users : u.role = "trainer"}

InitFifo ==
    /\ members = KimEntries(2, 3)
    /\ schedules = <<>>
    /\ ot_assignments = <<>>
    /\ today = 1
    /\ resp = NoResponse
    /\ inflight = <<>>
    /\ history = <<>>
    /\ salary = NoSalary

NextFifo ==
    \E user \in FifoUsers, m \in MemberInputs, d \in 1..FifoDays, t \in FifoTimes :
        QuickAddSchedule(user, m, d, t, NoId)

SpecFifo == InitFifo /\ [][NextFifo]_vars

----------------------------------------------------------------------------
(* Trial sessions: the trial member lee (2 sessions, no trainer of her     *)
(* own) with both sessions assigned to trainer T1.                         *)

LeeEntry ==
    (1 :> [NewMember("lee", NoTrainer, 2, 1, "none") EXCEPT
               !.member_type = "OT", !.ot_status = "assigned",
               !.ot_remaining_sessions = 0])

LeeAssignments ==
    [a \in {1, 2} |->
        [member_id |-> 1, trainer_id |-> "T1", session_number |-> a,
         status |-> "assigned", assigned_at |-> 1, deadline |-> 1 + ExtendDays,
         extended |-> FALSE]]

InitOT ==
    /\ members = LeeEntry
    /\ schedules = <<>>
    /\ ot_assignments = LeeAssignments
    /\ today = 1
    /\ resp = NoResponse
    /\ inflight = <<>>
    /\ history = <<>>
    /\ salary = NoSalary

NextOT ==
    \/ Tick
    \/ ViewSchedule
    \/ \E user \in Users, m \in MemberInputs, d \in Days, t \in Times,
          ot \in AssignmentInputs \cup {NoId} :
          /\ QuickAddSchedule(user, m, d, t, ot)
          /\ HasRoom /\ HasLogRoom
    \/ \E user \in Users, s \in ScheduleIds : QuickDeleteSchedule(user, s)
    \/ \E user \in Users, s \in ScheduleIds, w \in WorkTypes :
          CompleteSession(user, s, w)
    \/ \E user \in Users, s \in ScheduleIds, w \in WorkTypes :
          CompleteSessionAjax(user, s, w) /\ HasLogRoom
    \/ \E user \in Users, s \in ScheduleIds : CancelSession(user, s)
    \/ \E user \in Users, s \in ScheduleIds : CancelSessionAjax(user, s)

SpecOT == InitOT /\ [][NextOT]_vars

----------------------------------------------------------------------------
(* The trial pool: the trial member lee (2 sessions) as add_member leaves  *)
(* her, unassigned.  Admins assign, reclaim and open the pool page (the    *)
(* expiry sweep); trainers book, complete and extend; the clock moves in   *)
(* steps of PassDays days, one day more than a deadline period.            *)

PassDays == 8         \* days that pass in one step of the clock
PoolHorizon == 17     \* the last day explored
MaxAssignments == 3   \* rows of ot_assignments
MaxPoolHistory == 4   \* rows of ot_assignment_history

\* the two trainers and the branch admin
PoolUsers == {u \in Users : u.role # "main_admin"}

Pass ==
    /\ today + PassDays <= PoolHorizon
    /\ today' = today + PassDays
    /\ UNCHANGED <<members, schedules, ot_assignments, resp, inflight, history, salary>>

PoolEntry ==
    (1 :> [NewMember("lee", NoTrainer, 2, 1, "none") EXCEPT
               !.member_type = "OT", !.ot_status = "unassigned",
               !.ot_remaining_sessions = 2])

InitPool ==
    /\ members = PoolEntry
    /\ schedules = <<>>
    /\ ot_assignments = <<>>
    /\ today = 1
    /\ resp = NoResponse
    /\ inflight = <<>>
    /\ history = <<>>
    /\ salary = NoSalary

HasPoolRoom ==
    /\ Cardinality(DOMAIN ot_assignments') <= MaxAssignments
    /\ Cardinality(DOMAIN schedules') <= MaxBookings
    /\ Len(history') <= MaxPoolHistory

NextPool ==
    \/ Pass
    \/ \E user \in PoolUsers, m \in MemberInputs, tr \in Trainers, n \in 1..2 :
          AssignOtMember(user, m, tr, n) /\ HasPoolRoom
    \/ \E user \in PoolUsers : ViewOtMembers(user, NoId) /\ HasPoolRoom
    \/ \E user \in PoolUsers, m \in MemberInputs :
          ReclaimOtMember(user, m) /\ HasPoolRoom
    \/ \E user \in PoolUsers, a \in AssignmentInputs :
          ExtendOtAssignment(user, a) /\ HasPoolRoom
    \/ \E user \in PoolUsers, m \in MemberInputs, t \in Times,
          ot \in AssignmentInputs :
          QuickAddSchedule(user, m, today, t, ot) /\ HasPoolRoom
    \/ \E user \in PoolUsers, s \in ScheduleIds :
          CompleteSessionAjax(user, s, "in") /\ HasPoolRoom

SpecPool == InitPool /\ [][NextPool]_vars

----------------------------------------------------------------------------
(* The trial credits of an entry: the pool of SpecPool where, instead of    *)
(* extending deadlines, the admin sells the member further trial sessions. *)

MaxCredits == 3       \* sessions of the trial entry

NextCredits ==
    \/ Pass
    \/ \E user \in PoolUsers, m \in MemberInputs, tr \in Trainers, n \in 1..2 :
          AssignOtMember(user, m, tr, n) /\ HasPoolRoom
    \/ \E user \in PoolUsers : ViewOtMembers(user, NoId) /\ HasPoolRoom
    \/ \E user \in PoolUsers, m \in MemberInputs :
          ReclaimOtMember(user, m) /\ HasPoolRoom
    \/ \E user \in PoolUsers, m \in MemberInputs :
          /\ IncreaseOtSessions(user, m, 1)
          /\ HasPoolRoom
          /\ \A k \in DOMAIN members' : members'[k].sessions <= MaxCredits
    \/ \E user \in PoolUsers, m \in MemberInputs, t \in Times,
          ot \in AssignmentInputs :
          QuickAddSchedule(user, m, today, t, ot) /\ HasPoolRoom
    \/ \E user \in PoolUsers, s \in ScheduleIds :
          CompleteSessionAjax(user, s, "in") /\ HasPoolRoom

SpecCredits == InitPool /\ [][NextCredits]_vars

----------------------------------------------------------------------------
(* The trial pool with store errors: a request of the expiry sweep may     *)
(* raise while the sweep is at one of the rows.                            *)

NextSweep ==
    \/ NextPool
    \/ \E user \in PoolUsers, failing \in DOMAIN ot_assignments :
          ViewOtMembers(user, failing) /\ HasPoolRoom

SpecSweep == InitPool /\ [][NextSweep]_vars

----------------------------------------------------------------------------
(* Refunds and settlement: trainer T1 holds two entries created in the     *)
(* first month, kim (2 sessions of 2,500,000) and park (1 session of       *)
(* 10,000,000 sold through the channel WI), 10,000,000 of sales together.  *)
(* Sessions are booked and completed, entries refunded, un-refunded and    *)
(* transferred to T2, over RefundMonths months.                            *)

RefundMonths == 2    \* months explored
MaxEntries == 3      \* rows of members

\* every request is made by the main admin, who may make all of them
RefundUsers == {u \in Users : u.role = "main_admin"}

RefundEntries ==
    (1 :> [NewMember("kim", "T1", 2, 1, "none") EXCEPT !.unit_price = 2500000])
    @@ (2 :> [NewMember("park", "T1", 1, 2, "none") EXCEPT
                  !.unit_price = 10000000, !.channel = "WI"])

NextMonth ==
    /\ MonthOf(today) + 1 < RefundMonths
    /\ today' = today + MonthDays
    /\ UNCHANGED <<members, schedules, ot_assignments, resp, inflight, history,
                   salary>>

InitRefund ==
    /\ members = RefundEntries
    /\ schedules = <<>>
    /\ ot_assignments = <<>>
    /\ today = 2
    /\ resp = NoResponse
    /\ inflight = <<>>
    /\ history = <<>>
    /\ salary = NoSalary

NextRefund ==
    \/ NextMonth
    \/ \E user \in RefundUsers, m \in DOMAIN members, t \in Times :
          QuickAddSchedule(user, m, today, t, NoId) /\ HasRoom
    \/ \E user \in RefundUsers, s \in ScheduleIds : CompleteSession(user, s, "in")
    \/ \E user \in RefundUsers, m \in DOMAIN members : RefundMember(user, m)
    \/ \E user \in RefundUsers, m \in DOMAIN members : CancelRefund(user, m)
    \/ \E user \in RefundUsers, m \in DOMAIN members :
          /\ TransferMember(user, m, "T2")
          /\ Cardinality(DOMAIN members') <= MaxEntries

SpecRefund == InitRefund /\ [][NextRefund]_vars

----------------------------------------------------------------------------
(* Refund and its correction path requested by every role: the two entries *)
(* of SpecRefund, refunded and un-refunded by the owning trainer, another  *)
(* trainer, the branch admin and the main admin.                           *)

NextCorrection ==
    \/ NextMonth
    \/ \E user \in Users, m \in DOMAIN members : RefundMember(user, m)
    \/ \E user \in Users, m \in DOMAIN members : CancelRefund(user, m)

SpecCorrection == InitRefund /\ [][NextCorrection]_vars

----------------------------------------------------------------------------
(* The tier functions: one entry of one session for T1, its price drawn    *)
(* from TierSales, and the trainer opening the salary page of the month.   *)

TierSteps == 50      \* sales amounts explored: 0, 500,000, ..., 25,000,000

TierSales == {k * 500000 : k \in 0..TierSteps}

InitTiers ==
    /\ \E price \in TierSales :
           members = (1 :> [NewMember("kim", "T1", 1, 1, "none") EXCEPT
                                !.unit_price = price])
    /\ schedules = <<>>
    /\ ot_assignments = <<>>
    /\ today = 1
    /\ resp = NoResponse
    /\ inflight = <<>>
    /\ history = <<>>
    /\ salary = NoSalary

NextTiers ==
    \E user \in Users, month \in 0..MonthOf(today) : ViewSalary(user, month)

SpecTiers == InitTiers /\ [][NextTiers]_vars

----------------------------------------------------------------------------
(* Two quick_add_schedule requests in flight at once.  Each request reads  *)
(* (QuickAddCheck) and later writes (QuickAddWrite); the store runs each   *)
(* insert atomically, and nothing else serialises the two requests.        *)

Requests == {1, 2}

RaceRead(r, user, member_id, date, time, ot_id) ==
    LET check == QuickAddCheck(user, member_id, date, time, ot_id)
    IN /\ r \notin DOMAIN inflight
       /\ inflight' = inflight @@
              (r :> IF check.code = "ok"
                    THEN [code |-> "reading", row |-> check.row]
                    ELSE [code |-> check.code,
                          row |-> NewBooking(NoTrainer, member_id, date, time,
                                             "none", ot_id)])
       /\ Respond(IF check.code = "ok" THEN resp ELSE check.code)
       /\ UNCHANGED <<members, schedules, ot_assignments, today, history, salary>>

RaceWrite(r) ==
    /\ r \in DOMAIN inflight
    /\ inflight[r].code = "reading"
    /\ LET w == QuickAddWrite(inflight[r].row)
       IN /\ schedules' = w.schedules
          /\ ot_assignments' = w.ot_assignments
          /\ history' = w.history
          /\ inflight' = [inflight EXCEPT ![r].code = w.code]
          /\ Respond(w.code)
    /\ UNCHANGED <<members, today, salary>>

InitRace ==
    /\ \E s1, s2 \in 1..MaxSessions : members = KimEntries(s1, s2)
    /\ schedules = <<>>
    /\ ot_assignments = <<>>
    /\ today = 1
    /\ resp = NoResponse
    /\ inflight = <<>>
    /\ history = <<>>
    /\ salary = NoSalary

NextRace ==
    \/ \E r \in Requests, user \in Users, m \in MemberInputs, d \in Days, t \in Times :
          RaceRead(r, user, m, d, t, NoId)
    \/ \E r \in Requests : RaceWrite(r)

SpecRace == InitRace /\ [][NextRace]_vars

----------------------------------------------------------------------------
(* Properties.  A request is identified in a step by its handler's action. *)

SameSlot(a, b) ==
    a.trainer_id = b.trainer_id /\ a.date = b.date /\ a.time = b.time

\* the caller passes the ownership check of the booking mutators
PassesOwnership(user, s) == user.role # "trainer" \/ s.trainer_id = user.id

\* C1: in every reachable state every ledger entry satisfies
\* completed_count + planned_count + max(0, remaining) = sessions, that is, the
\* planned and completed bookings of an entry never exceed its sessions.
C1_LedgerInvariant ==
    \A m \in DOMAIN members :
        completed_count(m) + planned_count(m) + Max0(remaining_sessions(m))
            = members[m].sessions

\* the entries of a person with spare capacity, counted directly from the rows
C2_Spare(m) ==
    members[m].sessions
        - Cardinality({s \in DOMAIN schedules :
                          /\ schedules[s].member_id = m
                          /\ schedules[s].status \in {"planned", "completed"}})

C2_Oldest(person, trainer_id) ==
    LET avail == {m \in DOMAIN members :
                     /\ members[m].person = person
                     /\ members[m].trainer_id = trainer_id
                     /\ C2_Spare(m) > 0}
    IN IF avail = {} THEN NoId
       ELSE CHOOSE m \in avail :
                \A n \in avail : members[m].created_at <= members[n].created_at

C2_Total(person, trainer_id) ==
    Cardinality(UNION {{<<m, k>> : k \in 1..C2_Spare(m)} :
                          m \in {x \in DOMAIN members :
                                    /\ members[x].person = person
                                    /\ members[x].trainer_id = trainer_id}})

C2_Returned ==
    \A m \in DOMAIN members, tr \in Trainers :
        LET info == get_remaining_sessions_for_person(members[m].person, tr)
        IN /\ info.available_entry = C2_Oldest(members[m].person, tr)
           /\ info.total_remaining = C2_Total(members[m].person, tr)

C2_Booked ==
    \A user \in Users, m \in DOMAIN members, d \in Days, t \in Times :
        (resp' = "ok" /\ QuickAddSchedule(user, m, d, t, NoId))
            => \E s \in DOMAIN schedules' \ DOMAIN schedules :
                  /\ DOMAIN schedules' = DOMAIN schedules \cup {s}
                  /\ schedules'[s].member_id =
                         C2_Oldest(members[m].person, members[m].trainer_id)
                  /\ schedules'[s].status = "planned"

\* C2: get_remaining_sessions_for_person returns as allocation target the
\* oldest entry (by created_at) of the person whose sessions minus planned and
\* completed bookings is positive, or none when no entry has spare capacity,
\* and total_remaining is the sum of max(0, remaining) over the entries; a
\* regular quick_add_schedule booking is attached to that target, whatever
\* entry id the caller supplied.
C2_AllocationTarget == []C2_Returned /\ [][C2_Booked]_vars

\* C2 witness: the older entry (id 2) is used up by a planned booking, the
\* target has moved to the newer entry (id 1), and the request succeeded.
C2_Witness ==
    /\ resp = "ok"
    /\ \E s \in DOMAIN schedules :
          schedules[s].member_id = 2 /\ schedules[s].status = "planned"
    /\ C2_Spare(2) = 0
    /\ get_remaining_sessions_for_person("kim", "T1").available_entry = 1
    /\ get_remaining_sessions_for_person("kim", "T1").total_remaining = 1

\* C4: in every reachable state at most one non-cancelled booking exists per
\* (trainer_id, date, start_time), after inserts, cancels, sweeps and status
\* edits by main_admin.
C4_OneActivePerSlot ==
    \A i, j \in DOMAIN schedules :
        (i # j /\ SameSlot(schedules[i], schedules[j]))
            => (schedules[i].status = "cancelled" \/ schedules[j].status = "cancelled")

\* C4 witness: a cancelled and an active booking share a slot, and the store
\* has just refused a write that would have put a second active one there.
C4_Witness ==
    /\ resp \in {"Conflict", "Error"}
    /\ \E i, j \in DOMAIN schedules :
          /\ i # j
          /\ SameSlot(schedules[i], schedules[j])
          /\ schedules[i].status = "cancelled"
          /\ schedules[j].status # "cancelled"

\* a completion or a cancellation request for booking sid, by either route
IsComplete(user, sid, w) ==
    CompleteSession(user, sid, w) \/ CompleteSessionAjax(user, sid, w)

IsCancel(user, sid) == CancelSession(user, sid) \/ CancelSessionAjax(user, sid)

IsDelete(user, sid) == DeleteSchedule(user, sid) \/ QuickDeleteSchedule(user, sid)

C6_Refused ==
    \A user \in Users, sid \in DOMAIN schedules, w \in WorkTypes :
        (/\ schedules[sid].status # "planned"
         /\ IsComplete(user, sid, w) \/ IsCancel(user, sid))
            => /\ schedules' = schedules
               /\ resp' = IF PassesOwnership(user, schedules[sid])
                          THEN "InvalidState" ELSE "Forbidden"

C6_Applied ==
    \A user \in Users, sid \in DOMAIN schedules, w \in WorkTypes :
        (schedules[sid].status = "planned" /\ PassesOwnership(user, schedules[sid]))
            => /\ IsComplete(user, sid, w)
                   => /\ resp' = "ok"
                      /\ schedules' = [schedules EXCEPT
                             ![sid] = [@ EXCEPT !.status = "completed",
                                                !.work_type = w,
                                                !.signature = "sig",
                                                !.completed_at = "now"]]
               /\ IsCancel(user, sid)
                   => /\ resp' = "ok"
                      /\ schedules' = [schedules EXCEPT ![sid].status = "cancelled"]

\* C6: complete and cancel applied to a booking that is not planned are refused
\* (InvalidState once the caller has passed the ownership check, which comes
\* first) and leave the booking's status, work_type, signature and
\* completed_at as they were; applied to a planned booking they set the status
\* to completed, storing work_type, signature and completed_at, respectively
\* to cancelled.
C6_CompleteCancelGuard == [][C6_Refused /\ C6_Applied]_vars

\* C6 witness: a completed booking carrying its work_type, signature and
\* completed_at, on which a further complete or cancel was just refused.
C6_Witness ==
    /\ resp = "InvalidState"
    /\ \E s \in DOMAIN schedules :
          /\ schedules[s].status = "completed"
          /\ schedules[s].work_type \in WorkTypes
          /\ schedules[s].signature = "sig"
          /\ schedules[s].completed_at = "now"

C9_Swept ==
    ViewSchedule =>
        /\ DOMAIN schedules' = DOMAIN schedules
        /\ \A s \in DOMAIN schedules :
              IF schedules[s].status = "planned" /\ schedules[s].date < today
              THEN schedules'[s] = [schedules[s] EXCEPT !.status = "cancelled"]
              ELSE schedules'[s] = schedules[s]
        /\ auto_cancel_rows(schedules', today') = schedules'

\* C9: the sweep (auto_cancel_past_sessions, run by the schedule view) changes
\* every planned booking dated before today to cancelled and changes no other
\* booking; a second sweep on the same day changes nothing.
C9_SweepExact == [][C9_Swept]_vars

\* C9 witness: after a sweep, a past booking is cancelled while a planned one
\* dated today and a completed past one stand.
C9_Witness ==
    /\ resp = "page"
    /\ auto_cancel_rows(schedules, today) = schedules
    /\ \E s \in DOMAIN schedules :
          schedules[s].status = "cancelled" /\ schedules[s].date < today
    /\ \E s \in DOMAIN schedules :
          schedules[s].status = "planned" /\ schedules[s].date = today

C10_MustRefuse(user, s) ==
    \/ ~PassesOwnership(user, s)
    \/ /\ user.role # "main_admin"
       /\ s.status \in {"completed", "cancelled"} \/ s.date < today

C10_Step ==
    \A user \in Users, sid \in DOMAIN schedules, w \in WorkTypes :
        (/\ C10_MustRefuse(user, schedules[sid])
         /\ IsComplete(user, sid, w) \/ IsCancel(user, sid) \/ IsDelete(user, sid))
            => resp' # "ok" /\ schedules' = schedules

\* C10: complete, cancel and delete refuse a trainer acting on a booking of
\* another trainer, and refuse every actor but main_admin when the booking is
\* completed, cancelled or dated before today; the refused call leaves the
\* booking unchanged.
C10_PermissionRule == [][C10_Step]_vars

\* C7: whenever a booking linked to an OT assignment is completed, by either
\* completion route, the assignment becomes completed in the same operation:
\* no reachable state holds a completed booking whose assignment is scheduled.
C7_CompletedBookingCompletesAssignment ==
    \A s \in DOMAIN schedules :
        (/\ schedules[s].status = "completed"
         /\ schedules[s].ot_assignment_id \in DOMAIN ot_assignments)
            => ot_assignments[schedules[s].ot_assignment_id].status # "scheduled"

C8_Step ==
    \A user \in Users, sid \in DOMAIN schedules :
        LET a == schedules[sid].ot_assignment_id
        IN (/\ a \in DOMAIN ot_assignments
            /\ schedules[sid].status = "planned"
            /\ ot_assignments[a].status = "scheduled"
            /\ resp' = "ok"
            /\ IsCancel(user, sid))
               => ot_assignments'[a].status = "assigned"

\* C8: cancelling the planned booking of an OT assignment in status scheduled
\* reverts the assignment to assigned.
C8_CancelRevertsAssignment == [][C8_Step]_vars

----------------------------------------------------------------------------
(* SpecFifo: e1 is entry 2 (created first, 3 sessions), e2 is entry 1      *)
(* (created later, 2 sessions).  Only quick_add_schedule inserts and ids   *)
(* are given in order, so booking k is row k.                              *)

C3_Allocated(n1, n2) ==
    \A k \in DOMAIN schedules :
        /\ k <= n1 + n2
        /\ schedules[k].member_id = IF k <= n1 THEN 2 ELSE 1
        /\ schedules[k].status = "planned"

\* a booking request of the owning trainer or an admin for a free slot
C3_Request(user, m, d, t) ==
    /\ PassesOwnership(user, [trainer_id |-> members[m].trainer_id])
    /\ \A s \in DOMAIN schedules :
          ~SameSlot(schedules[s], [trainer_id |-> members[m].trainer_id,
                                   date |-> d, time |-> t])
    /\ QuickAddSchedule(user, m, d, t, NoId)

C3_Fifth ==
    \A user \in FifoUsers, m \in DOMAIN members, d \in 1..FifoDays, t \in FifoTimes :
        (Cardinality(DOMAIN schedules) = 4 /\ C3_Request(user, m, d, t))
            => resp' = "Exhausted" /\ schedules' = schedules

\* C3: with e1 (older, 3 sessions) and e2 (newer, 2 sessions) and no prior
\* bookings, four bookings in distinct slots go 3 to e1 and then 1 to e2, and
\* a 5th booking fails with Exhausted.
C3_FifthFails == []C3_Allocated(3, 1) /\ [][C3_Fifth]_vars

C3_Upto5 ==
    \A user \in FifoUsers, m \in DOMAIN members, d \in 1..FifoDays, t \in FifoTimes :
        (Cardinality(DOMAIN schedules) < 5 /\ C3_Request(user, m, d, t))
            => /\ resp' = "ok"
               /\ Cardinality(DOMAIN schedules') = Cardinality(DOMAIN schedules) + 1

C3_Sixth ==
    \A user \in FifoUsers, m \in DOMAIN members, d \in 1..FifoDays, t \in FifoTimes :
        (Cardinality(DOMAIN schedules) = 5 /\ C3_Request(user, m, d, t))
            => resp' = "Exhausted" /\ schedules' = schedules

\* C3 as amended: the five bookings in distinct slots go 3 to e1 and then 2 to
\* e2 (each of them succeeds), and the 6th booking fails with Exhausted.
C3_SixthFails == []C3_Allocated(3, 2) /\ [][C3_Upto5 /\ C3_Sixth]_vars

\* C3 witness: five bookings made, 3 on e1 and 2 on e2, and a further request
\* just refused with Exhausted.
C3_Witness ==
    /\ resp = "Exhausted"
    /\ Cardinality({k \in DOMAIN schedules : schedules[k].member_id = 2}) = 3
    /\ Cardinality({k \in DOMAIN schedules : schedules[k].member_id = 1}) = 2

----------------------------------------------------------------------------
(* SpecRace *)

Settled(r) == r \in DOMAIN inflight /\ inflight[r].code \in {"ok", "Conflict"}

C5_OneWinner ==
    \A r1, r2 \in Requests :
        (/\ r1 # r2
         /\ Settled(r1) /\ Settled(r2)
         /\ SameSlot(inflight[r1].row, inflight[r2].row))
            => \E w \in {r1, r2} :
                  /\ inflight[w].code = "ok"
                  /\ \A l \in {r1, r2} \ {w} : inflight[l].code = "Conflict"
                  /\ \E s \in DOMAIN schedules : schedules[s] = inflight[w].row
                  /\ Cardinality({s \in DOMAIN schedules :
                                     SameSlot(schedules[s], inflight[w].row)}) = 1

C5_NoOverwrite ==
    \A s \in DOMAIN schedules :
        s \in DOMAIN schedules' /\ schedules'[s] = schedules[s]

\* C5: when two quick_add_schedule requests for the same (trainer, date,
\* start_time) run concurrently, under every interleaving exactly one inserts
\* its planned booking and the other receives Conflict (409); no existing
\* booking is overwritten.
C5_ExactlyOneWins == []C5_OneWinner /\ [][C5_NoOverwrite]_vars

\* C5 witness: both requests passed their checks before either insert, one
\* won the slot and the other got Conflict.
C5_Witness ==
    /\ Settled(1) /\ Settled(2)
    /\ SameSlot(inflight[1].row, inflight[2].row)
    /\ inflight[2].code = "ok"
    /\ inflight[1].code = "Conflict"
    /\ Cardinality(DOMAIN schedules) = 1

----------------------------------------------------------------------------
(* OT assignment state machine (SpecPool) *)

C11_Allowed ==
    {<<"assigned", "scheduled">>, <<"scheduled", "completed">>,
     <<"assigned", "returned">>, <<"scheduled", "assigned">>}

\* the step is the expiry sweep or a manual reclaim
C11_SweepOrReclaim ==
    \/ \E user \in PoolUsers : ViewOtMembers(user, NoId)
    \/ \E user \in PoolUsers, m \in DOMAIN members : ReclaimOtMember(user, m)

\* C11: every status change of an assignment is assigned->scheduled,
\* scheduled->completed, assigned->returned or scheduled->assigned (so never
\* scheduled->returned), no assignment row disappears, and a step of the
\* expiry sweep or of reclaim leaves every scheduled assignment as it was.
C11_NoScheduledToReturned ==
    [][/\ \A a \in DOMAIN ot_assignments :
             /\ a \in DOMAIN ot_assignments'
             /\ ot_assignments'[a].status # ot_assignments[a].status
                    => <<ot_assignments[a].status, ot_assignments'[a].status>>
                           \in C11_Allowed
       /\ (\E a \in DOMAIN ot_assignments : ot_assignments[a].status = "scheduled")
              /\ C11_SweepOrReclaim
          => \A a \in DOMAIN ot_assignments :
                 ot_assignments[a].status = "scheduled"
                     => ot_assignments'[a] = ot_assignments[a]]_vars

\* the sweep has just returned an expired assignment of a trainer while an
\* expired scheduled assignment stayed scheduled
C11_Witness ==
    /\ resp = "ot_page"
    /\ history # <<>>
    /\ history[Len(history)].action = "returned"
    /\ history[Len(history)].trainer_id # NoTrainer
    /\ \E a \in DOMAIN ot_assignments :
           /\ ot_assignments[a].status = "scheduled"
           /\ ot_assignments[a].deadline < today

AssignmentsOf(m) == {a \in DOMAIN ot_assignments : ot_assignments[a].member_id = m}

\* C12: the session numbers of a trial entry's assignments are exactly 1..K,
\* K being the number of assignment rows ever created for it, whatever was
\* returned by the sweep or by reclaim in between.
C12_SessionNumbers ==
    \A m \in DOMAIN members :
        {ot_assignments[a].session_number : a \in AssignmentsOf(m)}
            = 1..Cardinality(AssignmentsOf(m))

\* a third assignment of the two-session entry: one was returned before it
C12_Witness ==
    \E m \in DOMAIN members :
        /\ Cardinality(AssignmentsOf(m)) > members[m].sessions
        /\ \E a \in AssignmentsOf(m) : ot_assignments[a].status = "returned"
        /\ \E a \in AssignmentsOf(m) :
               /\ ot_assignments[a].status = "assigned"
               /\ ot_assignments[a].session_number = Cardinality(AssignmentsOf(m))

\* the tables after one run of the expiry sweep, and after a second one
SweptOnce == check_and_return_expired_ot_members(Tables, today, NoId)
SweptTwice == check_and_return_expired_ot_members(SweptOnce, today, NoId)

ExpiredOf(m) == {a \in expired_assignments(ot_assignments, today) :
                     ot_assignments[a].member_id = m}

\* the first run returns every assigned assignment whose deadline has passed
\* and gives the member one session back for each of them
C13_FirstRunReturns ==
    \A m \in DOMAIN members :
        /\ \A a \in ExpiredOf(m) : SweptOnce.ot_assignments[a].status = "returned"
        /\ ExpiredOf(m) # {} =>
               SweptOnce.members[m].ot_remaining_sessions
                   = members[m].ot_remaining_sessions + Cardinality(ExpiredOf(m))

\* the second run changes no assignment, no member and no history row
C13_SecondRunIdle == SweptTwice = SweptOnce

\* C13: two runs of the expiry sweep in a row return an assignment that is
\* assigned with its deadline passed exactly once and add exactly 1 to the
\* member's ot_remaining_sessions for it; the second run changes nothing.
C13_SweepTwice == C13_FirstRunReturns /\ C13_SecondRunIdle

\* a completed booking of the assignment a itself
CompletedBookingOf(rows, a) ==
    \E s \in DOMAIN rows : /\ rows[s].ot_assignment_id = a
                            /\ rows[s].status = "completed"

\* C14: when the expiry sweep has run, no assignment is left assigned with
\* its deadline passed unless a completed booking exists for that assignment.
C14_SweepLeavesNoExpired ==
    [][(\E user \in PoolUsers :
            user.role \in AdminRoles /\ ViewOtMembers(user, NoId))
       => \A a \in DOMAIN ot_assignments' :
              (/\ ot_assignments'[a].status = "assigned"
               /\ ot_assignments'[a].deadline < today')
                  => CompletedBookingOf(schedules', a)]_vars

\* the caller passes the ownership check of extend
C15_MayExtend(user, a) ==
    user.role # "trainer" \/ ot_assignments[a].trainer_id = user.id

\* what an extend request of a permitted caller must do to the assignment a
C15_Step(user, a) ==
    LET old == ot_assignments[a]
    IN IF old.status = "assigned" /\ ~old.extended
       THEN /\ resp' = "ok"
            /\ ot_assignments' = [ot_assignments EXCEPT
                   ![a].deadline = old.deadline + 7, ![a].extended = TRUE]
       ELSE /\ resp' \in {"AlreadyExtended", "InvalidState"}
            /\ old.extended /\ old.status = "assigned" => resp' = "AlreadyExtended"
            /\ ~old.extended => resp' = "InvalidState"
            /\ ot_assignments' = ot_assignments

\* C15: extend succeeds only on an assignment that is assigned and not yet
\* extended, then adds exactly 7 days to its deadline and sets extended; any
\* other extend fails with AlreadyExtended or InvalidState and changes
\* nothing; so no deadline is ever more than 14 days after assigned_at.
C15_ExtendOnce ==
    [][/\ \A user \in PoolUsers, a \in DOMAIN ot_assignments :
             C15_MayExtend(user, a) /\ ExtendOtAssignment(user, a)
                 => C15_Step(user, a)
       /\ \A a \in DOMAIN ot_assignments' :
             ot_assignments'[a].deadline <= ot_assignments'[a].assigned_at + 14]_vars

\* a second extend of an extended assignment has just been refused
C15_Witness ==
    /\ resp = "AlreadyExtended"
    /\ \E a \in DOMAIN ot_assignments :
           /\ ot_assignments[a].extended
           /\ ot_assignments[a].status = "assigned"
           /\ ot_assignments[a].deadline = ot_assignments[a].assigned_at + 14

----------------------------------------------------------------------------
(* Settlement (SpecTiers, SpecRefund) *)

\* C19: with the default settings the salary page shows an incentive of
\* 3,040,000 for sales of 12,000,000 and of 0 for sales of 2,000,000, and a
\* lesson fee rate of 33 for sales of 8,500,000.
C19_TierExamples ==
    /\ salary.sales = 12000000 => salary.incentive = 3040000
    /\ salary.sales = 2000000 => salary.incentive = 0
    /\ salary.sales = 8500000 => salary.lesson_fee_rate_main = 33

\* the entry m as refund_member would leave it now, requested by user
Refunded(m, user) ==
    refund_update(members[m], completed_count(m),
                  deduction_amount(members, m, completed_count(m), today),
                  user, today)

\* C16: for every entry that is not refunded, whatever bookings of it are
\* completed, refund followed by cancel_refund leaves sessions as it was and
\* refund_status, refund_amount, refund_sessions, refund_original_month,
\* refund_applied_month, refunded_at, refunded_by and original_sessions
\* cleared.
C16_RefundRoundTrip ==
    \A m \in DOMAIN members, user \in RefundUsers :
        members[m].refund_status # "refunded" =>
            LET back == cancel_refund_update(Refunded(m, user))
            IN /\ back.sessions = members[m].sessions
               /\ back.refund_status = "none"
               /\ back.refund_amount = Null
               /\ back.refund_sessions = Null
               /\ back.refund_original_month = Null
               /\ back.refund_applied_month = Null
               /\ back.refunded_at = Null
               /\ back.refunded_by = "none"
               /\ back.original_sessions = Null

\* monthly_total(trainer, month) on the tables mem, rows
monthly_total(mem, rows, trainer_id, month) ==
    trainer_data(mem, rows, trainer_id, month).total_salary

\* the step refunds the entry m, created in an earlier month
C18_LateRefund(user, m) ==
    /\ members[m].refund_status # "refunded"
    /\ MonthOf(members[m].created_at) < MonthOf(today)
    /\ RefundMember(user, m)

\* C18: a refund of an entry created in an earlier month leaves the
\* monthly_total of the origin month as it was, and lowers the monthly_total
\* of the current month by the deduction stored on the entry.
C18_OriginMonthFrozen ==
    [][\A user \in RefundUsers, m \in DOMAIN members :
          C18_LateRefund(user, m) =>
              LET trainer_id == members[m].trainer_id
                  origin == MonthOf(members[m].created_at)
                  current == MonthOf(today)
              IN /\ monthly_total(members', schedules', trainer_id, origin)
                        = monthly_total(members, schedules, trainer_id, origin)
                 /\ monthly_total(members', schedules', trainer_id, current)
                        = monthly_total(members, schedules, trainer_id, current)
                              - members'[m].refund_amount]_vars

\* incentive_total(origin month, with the entry) - incentive_total(origin
\* month, without the entry), on the tables before the refund
C17_Delta(m) ==
    LET trainer_id == members[m].trainer_id
        origin == MonthOf(members[m].created_at)
    IN calculate_trainer_incentives_for_month(members, trainer_id, origin, NoId)
       - calculate_trainer_incentives_for_month(members, trainer_id, origin, m)

\* the money the refund gives back: (sessions - completed) * unit_price
C17_Money(m) ==
    (members[m].sessions - completed_count(m)) * members[m].unit_price

\* a refund step of the entry m that stores amount as the deduction: it is
\* applied to the current month, and taken from that month's total only
C17_Stores(m, amount) ==
    /\ members'[m].refund_amount = amount
    /\ members'[m].refund_applied_month = MonthOf(today)
    /\ \A month \in 0..(RefundMonths - 1) :
           refund_deductions(members', members[m].trainer_id, month)
               = refund_deductions(members, members[m].trainer_id, month)
                 + (IF month = MonthOf(today) THEN amount ELSE 0)

C17_Refund(user, m) ==
    /\ members[m].refund_status # "refunded"
    /\ RefundMember(user, m)

\* C17: a refund of an entry created in an earlier month stores the delta
\* of the origin month's incentive total with and without the entry as
\* refund_amount, applied to the current month and subtracted from that
\* month's total only; a refund in the origin month stores 0.
C17_DeductionIsDelta ==
    [][\A user \in RefundUsers, m \in DOMAIN members :
          C17_Refund(user, m) =>
              IF MonthOf(members[m].created_at) < MonthOf(today)
              THEN C17_Stores(m, C17_Delta(m))
              ELSE C17_Stores(m, 0)]_vars

\* C17 as the code has it: the delta is stored when the refund gives money
\* back, (sessions - completed) * unit_price > 0, and 0 otherwise
C17_DeductionIsDeltaIfMoney ==
    [][\A user \in RefundUsers, m \in DOMAIN members :
          C17_Refund(user, m) =>
              IF MonthOf(members[m].created_at) < MonthOf(today)
                 /\ C17_Money(m) > 0
              THEN C17_Stores(m, C17_Delta(m))
              ELSE C17_Stores(m, 0)]_vars

\* an entry of an earlier month has just been refunded with a deduction
C17_Witness ==
    /\ resp = "ok"
    /\ \E m \in DOMAIN members :
           /\ members[m].refund_status = "refunded"
           /\ members[m].refunded_at = today
           /\ members[m].refund_original_month < members[m].refund_applied_month
           /\ members[m].refund_amount > 0

----------------------------------------------------------------------------
(* Sweeps and store errors (SpecSweep) *)

\* the rows the expiry sweep returns when no request fails
C20_Eligible ==
    {a \in expired_assignments(ot_assignments, today) :
         ~has_completed_schedule(ot_assignments[a])}

\* C20: when a request fails while the expiry sweep is at one row, every
\* other eligible row is still returned by that run, and the page is
\* rendered (the sweep does not raise).
C20_SweepSurvivesRowFailure ==
    [][\A user \in PoolUsers, failing \in DOMAIN ot_assignments :
          user.role \in AdminRoles /\ ViewOtMembers(user, failing)
              => /\ resp' = "ot_page"
                 /\ \A a \in C20_Eligible \ {failing} :
                        ot_assignments'[a].status = "returned"]_vars

----------------------------------------------------------------------------
(* The audit log of the trial pool (SpecPool) *)

IsPrefix(s, t) == Len(s) <= Len(t) /\ SubSeq(t, 1, Len(s)) = s

\* the assignments created or changed by the step
C21_Touched ==
    {a \in DOMAIN ot_assignments' :
        a \notin DOMAIN ot_assignments \/ ot_assignments'[a] # ot_assignments[a]}

\* C21: ot_assignment_history is append-only and complete: every step keeps
\* the records there are, in their order and unchanged, and a step that
\* creates an assignment or changes one (assign, schedule, complete,
\* expire-return, manual reclaim, extend) appends at least one record for the
\* member of every assignment it touched.
C21_HistoryAppendOnly ==
    [][/\ IsPrefix(history, history')
       /\ \A a \in C21_Touched :
              \E i \in (Len(history) + 1)..Len(history') :
                  history'[i].member_id = ot_assignments'[a].member_id]_vars

\* the log after an assign, a booking, its completion and a manual reclaim
C21_Witness ==
    /\ Len(history) = 4
    /\ history[1].action = "assigned"
    /\ history[2].action = "scheduled"
    /\ history[3].action = "completed"
    /\ history[4].action = "returned"
    /\ \E a \in DOMAIN ot_assignments : ot_assignments[a].status = "returned"

----------------------------------------------------------------------------
(* Booking a trial session (SpecOT) *)

\* the planned or completed bookings that reference the assignment
BookingsOf(rows, ot_id) ==
    {s \in DOMAIN rows : /\ rows[s].ot_assignment_id = ot_id
                         /\ rows[s].status \in {"planned", "completed"}}

\* C22: a quick-add that references an assignment succeeds only when the
\* assignment is assigned and no planned or completed booking references it,
\* and then the assignment becomes scheduled; when the assignment is
\* scheduled, completed or returned, or has such a booking, the request fails
\* and schedules is unchanged; and no assignment is referenced by two planned
\* or completed bookings.
C22_ScheduleGuard ==
    [][/\ \A user \in Users, m \in MemberInputs, d \in Days, t \in Times,
             ot \in DOMAIN ot_assignments :
              QuickAddSchedule(user, m, d, t, ot)
                  => IF /\ ot_assignments[ot].status = "assigned"
                        /\ BookingsOf(schedules, ot) = {}
                     THEN resp' = "ok" => ot_assignments'[ot].status = "scheduled"
                     ELSE resp' # "ok" /\ schedules' = schedules
       /\ \A ot \in DOMAIN ot_assignments' :
              Cardinality(BookingsOf(schedules', ot)) <= 1]_vars

----------------------------------------------------------------------------
(* The member-level status after a completion (SpecPool) *)

CompletedAssignments(asg, m) ==
    {a \in DOMAIN asg : asg[a].member_id = m /\ asg[a].status = "completed"}

\* C23: after a booking of a trial assignment is completed, the entry's
\* ot_status is completed if the number of its completed assignments equals
\* its sessions, and partial otherwise.
C23_StatusAfterComplete ==
    [][\A user \in PoolUsers, s \in DOMAIN schedules :
           /\ schedules[s].ot_assignment_id # NoId
           /\ CompleteSessionAjax(user, s, "in")
           /\ resp' = "ok"
           => LET m == schedules[s].member_id
              IN members'[m].ot_status =
                     IF Cardinality(CompletedAssignments(ot_assignments', m))
                            = members'[m].sessions
                     THEN "completed" ELSE "partial"]_vars

----------------------------------------------------------------------------
(* assign (SpecPool) *)

\* the assignments of the entry that hold one of its sessions: those created
\* and not returned to the pool since
HeldAssignments(asg, m) ==
    {a \in DOMAIN asg : asg[a].member_id = m /\ asg[a].status # "returned"}

Min(a, b) == IF a < b THEN a ELSE b

\* C24: assign(entry, trainer, count) by an admin is refused, changing
\* nothing, unless the entry is trial-type and remaining = sessions minus the
\* number of assignments created for it (and still held) is > 0; otherwise it
\* creates exactly min(count, remaining) assignments, each assigned to the
\* trainer with deadline = now + 7 days and extended = false, and sets
\* ot_status to assigned when nothing remains to assign and to partial when
\* some sessions are still unassigned.
C24_Assign ==
    [][\A user \in PoolUsers, m \in DOMAIN members, tr \in Trainers, n \in 1..2 :
           /\ user.role \in AdminRoles
           /\ AssignOtMember(user, m, tr, n)
           => LET remaining == members[m].sessions
                                   - Cardinality(HeldAssignments(ot_assignments, m))
                  created == DOMAIN ot_assignments' \ DOMAIN ot_assignments
              IN IF members[m].member_type # "OT" \/ remaining <= 0
                 THEN /\ resp' # "ok"
                      /\ UNCHANGED <<ot_assignments, members>>
                 ELSE /\ Cardinality(created) = Min(n, remaining)
                      /\ \A a \in created :
                             ot_assignments'[a] = NewAssignment(m, tr,
                                 ot_assignments'[a].session_number, today)
                      /\ \A a \in DOMAIN ot_assignments :
                             ot_assignments'[a] = ot_assignments[a]
                      /\ members'[m].ot_status =
                             IF remaining - Min(n, remaining) = 0
                             THEN "assigned" ELSE "partial"]_vars

----------------------------------------------------------------------------
(* Manual reclaim (SpecPool) *)

\* C25: a reclaim of an entry whose ot_status is neither assigned nor partial
\* is refused and changes no row; otherwise, in the one operation, every
\* assignment of the entry that is assigned becomes returned, every other
\* assignment (scheduled, completed, returned, or of another entry) is left
\* as it was, and the entry gets ot_remaining_sessions = sessions and
\* ot_status = unassigned.
C25_Reclaim ==
    [][\A user \in PoolUsers, m \in DOMAIN members :
           /\ user.role \in AdminRoles
           /\ ReclaimOtMember(user, m)
           => IF members[m].ot_status \notin {"assigned", "partial"}
              THEN /\ resp' # "ok"
                   /\ UNCHANGED <<members, ot_assignments, schedules, history>>
              ELSE /\ resp' = "ok"
                   /\ DOMAIN ot_assignments' = DOMAIN ot_assignments
                   /\ \A a \in DOMAIN ot_assignments :
                          ot_assignments'[a] =
                              IF /\ ot_assignments[a].member_id = m
                                 /\ ot_assignments[a].status = "assigned"
                              THEN [ot_assignments[a] EXCEPT !.status = "returned"]
                              ELSE ot_assignments[a]
                   /\ members'[m].ot_remaining_sessions = members[m].sessions
                   /\ members'[m].ot_status = "unassigned"]_vars

\* a reclaim has just returned an assigned session of the entry and left a
\* scheduled one alone
C25_Witness ==
    /\ resp = "ok"
    /\ history # <<>>
    /\ history[Len(history)] = HistoryRecord(1, NoTrainer, "returned")
    /\ members[1].ot_status = "unassigned"
    /\ members[1].ot_remaining_sessions = members[1].sessions
    /\ \E a, b \in DOMAIN ot_assignments :
           /\ ot_assignments[a].status = "returned"
           /\ ot_assignments[b].status = "scheduled"

----------------------------------------------------------------------------
(* The guards of refund and cancel_refund (SpecCorrection) *)

\* C26: cancel_refund by an actor other than main_admin fails with Forbidden,
\* cancel_refund (by main_admin) of an entry that is not refunded fails with
\* NotRefunded, and refund of an entry that is refunded fails with
\* AlreadyRefunded; in each case no row of members changes, so sessions,
\* original_sessions and every refund field stay as they were.
C26_RefundGuards ==
    [][\A user \in Users, m \in DOMAIN members :
           /\ CancelRefund(user, m) /\ user.role # "main_admin"
                  => resp' = "Forbidden" /\ members' = members
           /\ CancelRefund(user, m) /\ user.role = "main_admin"
                                    /\ members[m].refund_status # "refunded"
                  => resp' = "NotRefunded" /\ members' = members
           /\ RefundMember(user, m) /\ members[m].refund_status = "refunded"
                  => resp' = "AlreadyRefunded" /\ members' = members]_vars

\* a refund of a refunded entry has just been refused
C26_Witness ==
    /\ resp = "AlreadyRefunded"
    /\ \E m \in DOMAIN members :
           /\ members[m].refund_status = "refunded"
           /\ members[m].original_sessions # Null

----------------------------------------------------------------------------
(* Transfer (SpecRefund) *)

\* C27: a transfer of an entry that is refunded, already transferred, or has
\* S - c <= 0 (S its sessions, c its completed bookings) is refused and
\* changes neither members nor schedules; a successful transfer rewrites the
\* source to sessions = c, original_sessions = S, transfer_status =
\* transferred, and inserts exactly one entry, owned by the receiving trainer,
\* with sessions = S - c and transfer_status = received, so that the two
\* entries hold S sessions together; no other entry changes.
C27_Transfer ==
    [][\A user \in RefundUsers, m \in DOMAIN members :
           TransferMember(user, m, "T2")
           => LET S == members[m].sessions
                  c == completed_count(m)
                  new == DOMAIN members' \ DOMAIN members
              IN IF \/ members[m].refund_status = "refunded"
                    \/ members[m].transfer_status = "transferred"
                    \/ S - c <= 0
                 THEN /\ resp' \notin TransferOutcomes
                      /\ UNCHANGED <<members, schedules>>
                 ELSE resp' = "ok"
                      => /\ members'[m].sessions = c
                         /\ members'[m].original_sessions = S
                         /\ members'[m].transfer_status = "transferred"
                         /\ Cardinality(new) = 1
                         /\ \A n \in new :
                                /\ members'[n].trainer_id = "T2"
                                /\ members'[n].sessions = S - c
                                /\ members'[n].transfer_status = "received"
                                /\ members'[m].sessions + members'[n].sessions = S
                         /\ \A k \in DOMAIN members \ {m} :
                                members'[k] = members[k]]_vars

\* an entry with one completed booking has just been transferred: the source
\* keeps the completed session, the new entry holds the rest
C27_Witness ==
    /\ resp = "ok"
    /\ \E m, n \in DOMAIN members :
           /\ members[m].transfer_status = "transferred"
           /\ members[n].transfer_status = "received"
           /\ members[m].sessions = 1
           /\ completed_count(m) = 1
           /\ members[m].original_sessions = 2
           /\ members[n].sessions = 1
           /\ members[n].trainer_id = "T2"

\* C28: after a successful transfer the source entry has no planned booking
\* dated today or later.
C28_NoFuturePlanned ==
    [][\A user \in RefundUsers, m \in DOMAIN members :
           /\ TransferMember(user, m, "T2")
           /\ resp' = "ok"
           => \A s \in DOMAIN schedules' :
                  ~(/\ schedules'[s].member_id = m
                    /\ schedules'[s].status = "planned"
                    /\ schedules'[s].date >= today)]_vars

----------------------------------------------------------------------------
(* Trial credits are handed out at most once each (SpecCredits) *)

\* the assignments of the entry that hold a credit: assigned, scheduled or
\* completed
LiveAssignments(m) ==
    {a \in AssignmentsOf(m) :
        ot_assignments[a].status \in {"assigned", "scheduled", "completed"}}

\* C29: for every trial entry, in every reachable state, the number of its
\* assignments in status assigned, scheduled or completed is at most its
\* sessions, and ot_remaining_sessions = sessions - that number.
C29_CreditsConserved ==
    \A m \in DOMAIN members :
        members[m].member_type = "OT"
            => /\ Cardinality(LiveAssignments(m)) <= members[m].sessions
               /\ members[m].ot_remaining_sessions
                      = members[m].sessions - Cardinality(LiveAssignments(m))

----------------------------------------------------------------------------
(* A scheduled assignment and its booking (SpecOT) *)

PlannedBookingsOf(ot_id) ==
    {s \in DOMAIN schedules : /\ schedules[s].ot_assignment_id = ot_id
                              /\ schedules[s].status = "planned"}

\* C30: in every reachable state, every assignment in status scheduled is
\* referenced by exactly one planned booking (so it can still be completed
\* and is never left scheduled with no active booking).
C30_ScheduledHasBooking ==
    \A a \in DOMAIN ot_assignments :
        ot_assignments[a].status = "scheduled"
            => Cardinality(PlannedBookingsOf(a)) = 1

====
